---- MODULE Spec2Model ----
(***************************************************************************)
(* Weather station dashboard: the forecast-fetch task                      *)
(* (tasks/get_nws_forecast.py), the observation/forecast readers, the      *)
(* merge and the polling callbacks of the dashboard                        *)
(* (dashboard/weather_dash_polars.py), and the ingest endpoint             *)
(* (api/main.py).                                                          *)
(*                                                                         *)
(* FetchSpec: runs of the forecast task over the three forecast files      *)
(* and of the radar task (tasks/get_nws_radar.py) over the radar image.    *)
(* DashSpec: the 5-minute pipeline of the dashboard (store and figures)    *)
(* over short logs.  CursorSpec: the 15-second polls over logs of about    *)
(* 4000 rows.  IngestSpec: the station's reports, one request at a time.   *)
(* PlotSpec: the functions behind the figures, called on a stored series.  *)
(* ZoomSpec: the wind and rain figures follow a zoom of the temperature    *)
(* graph.  ChartSpec: the three charts, called on series of reports and    *)
(* forecast hours.  RaceSpec: two reports whose requests overlap, each     *)
(* request a scan of the ids and an append.                                *)
(*                                                                         *)
(* Time is counted in whole seconds since the first second of a January;   *)
(* where the code keeps the microseconds of the clock, the fraction is a   *)
(* choice between none and some (SubSeconds).  A nullable value (Python    *)
(* None, polars null) is a sequence of length 0 or 1: <<>> is None/null,   *)
(* <<v>> is the value v.                                                   *)
(***************************************************************************)
EXTENDS Integers, Sequences, FiniteSets, TLC

VARIABLES
    now,              \* the wall clock, in UTC seconds
    NWS_r,            \* the upstream response of the last forecast run
    predictions_csv,  \* FORECAST_PREDICTIONS.csv
    descriptions_csv, \* FORECAST_DESCRIPTIONS.csv
    icons_csv,        \* FORECAST_ICONS.csv
    radar_gif,        \* radar.gif: the body it holds
    observations_csv, \* WEATHER_OBSERVATION_dp.csv
    weather_df_store, \* the data of the dcc.Store "weather_df_store"
    temp_graph,       \* the figure of the dcc.Graph "temp_graph"
    windspeed_graph,  \* the figure of the dcc.Graph "windspeed_graph"
    rain_graph,       \* the figure of the dcc.Graph "rain_graph"
    todays_high_low,  \* the values of the displays of today's high and low
    pending,          \* the callbacks that a changed Input has triggered
    response,         \* what the last callback request returned and logged
    relayoutdata,     \* the relayoutData of "temp_graph": the last zoom or pan
    call,             \* the last direct call of a function: arguments and result
    requests          \* the POST /observations requests in flight: how far
                      \* each has run and the row_id it has computed

fetchVars == <<NWS_r, descriptions_csv, icons_csv, radar_gif>>
dashVars == <<observations_csv, weather_df_store, temp_graph, windspeed_graph,
              rain_graph, todays_high_low, pending, response, relayoutdata>>
vars == <<now, predictions_csv, fetchVars, dashVars, call, requests>>

----------------------------------------------------------------------------
(* Bounds of the model *)

MaxTicks == 1
MaxPeriods == 1

----------------------------------------------------------------------------
(* Units and generic helpers *)

Minute == 60
Hour == 60 * Minute
Day == 24 * Hour

None == <<>>
Some(v) == <<v>>
IsNone(o) == o = <<>>

Range(s) == {s[i] : i \in 1..Len(s)}

\* the values of column c of a table
Column(rows, c) == {rows[i][c] : i \in 1..Len(rows)}

SetMin(S) == CHOOSE m \in S : \A x \in S : m <= x
\* the largest element is the negation of the smallest negation
SetMax(S) == 0 - SetMin({0 - x : x \in S})

\* polars Series.max(): null when the column has no value
ColMax(S) == IF S = {} THEN None ELSE Some(SetMax(S))

\* every order in which the elements of a finite set can be listed
Orderings(S) ==
    {s \in [1..Cardinality(S) -> S] : \A i, j \in 1..Cardinality(S) : s[i] = s[j] => i = j}

\* a CSV file: absent from disk, or present with its data rows
NoFile == [exists |-> FALSE, rows |-> <<>>]
File(rows) == [exists |-> TRUE, rows |-> rows]

----------------------------------------------------------------------------
(* tasks/get_nws_forecast.py *)

\* the station's clock when the model starts
StartTime == 400 * Day + 5 * Hour + 20 * Minute + 5

FallbackDays == 365

\* the hourly periods the upstream source reports: dewpoint in degrees
\* Celsius, windSpeed as <<number, unit>> for a string such as "10 mph",
\* windDirection as a compass point
Sunny == [shortForecast |-> "Sunny", icon |-> "day", temperature |-> 75,
          dewpoint |-> 15, windSpeed |-> <<10, "mph">>, windDirection |-> "N",
          probabilityOfPrecipitation |-> 0]
Rainy == [shortForecast |-> "Rain", icon |-> "night", temperature |-> 60,
          dewpoint |-> 10, windSpeed |-> <<20, "mph">>, windDirection |-> "S",
          probabilityOfPrecipitation |-> 80]
Clear == [shortForecast |-> "Clear", icon |-> "day", temperature |-> 70,
          dewpoint |-> 5, windSpeed |-> <<5, "mph">>, windDirection |-> "NW",
          probabilityOfPrecipitation |-> 10]
PeriodKinds == {Sunny, Rainy}

HourFloor(t) == t - (t % Hour)

\* the periods of an upstream response: numbered from 1, one per hour
PeriodsOf(updated, content) ==
    [i \in 1..Len(content) |->
        [number |-> i,
         startTime |-> HourFloor(updated) + (i - 1) * Hour,
         temperature |-> content[i].temperature,
         dewpoint |-> content[i].dewpoint,
         windSpeed |-> content[i].windSpeed,
         windDirection |-> content[i].windDirection,
         probabilityOfPrecipitation |-> content[i].probabilityOfPrecipitation,
         shortForecast |-> content[i].shortForecast,
         icon |-> content[i].icon]]

PeriodContents ==
    UNION {[1..n -> PeriodKinds] : n \in 0..MaxPeriods}

\* what requests.get can produce at clock t: a 200 response with an "updated"
\* time and periods, a non-200 response, or a network failure (raised)
Responses(t) ==
    {[raised |-> FALSE, status_code |-> 200, updated |-> u, periods |-> PeriodsOf(u, c)] :
        u \in {t - (FallbackDays + 1) * Day, t}, c \in PeriodContents}
    \cup {[raised |-> FALSE, status_code |-> 503, updated |-> 0, periods |-> <<>>],
          [raised |-> TRUE, status_code |-> 0, updated |-> 0, periods |-> <<>>]}

NoResponse == [raised |-> FALSE, status_code |-> 0, updated |-> 0, periods |-> <<>>]

make_forecast_descriptions_lf(csv) == IF csv.exists THEN csv.rows ELSE <<>>

make_forecast_icons_lf(csv) == IF csv.exists THEN csv.rows ELSE <<>>

make_existing_predictions_lf(csv) == IF csv.exists THEN csv.rows ELSE <<>>

\* polars left join of rows with a lookup table on column key; the table's id
\* lands in column idname, null where no table row matches
RECURSIVE LeftJoin(_, _, _, _)
LeftJoin(rows, tab, key, idname) ==
    IF rows = <<>> THEN <<>>
    ELSE LET r == Head(rows)
             m == SelectSeq(tab, LAMBDA t : t[key] = r[key])
             ext(v) == [x \in (DOMAIN r) \cup {idname} |-> IF x = idname THEN v ELSE r[x]]
             out == IF m = <<>> THEN <<ext(None)>>
                    ELSE [i \in 1..Len(m) |-> ext(Some(m[i].id))]
         IN  out \o LeftJoin(Tail(rows), tab, key, idname)

\* the degrees of the compass points; map_dict gives null for any other string
WIND_DIR_REPLACE_DICT ==
    [point \in {"N", "NW", "W", "SW", "S", "SE", "E", "NE"} |->
        CASE point = "N" -> 0 [] point = "NW" -> 315 [] point = "W" -> 270
          [] point = "SW" -> 225 [] point = "S" -> 180 [] point = "SE" -> 135
          [] point = "E" -> 90 [] point = "NE" -> 45]

make_forecast_frames(r, descriptions_lf, icons_lf) ==
    LET base == [i \in 1..Len(r.periods) |->
                    [number |-> r.periods[i].number,
                     startTime |-> r.periods[i].startTime,
                     temperature |-> r.periods[i].temperature,
                     \* Celsius to Fahrenheit, cast to an integer
                     dewpoint |-> (r.periods[i].dewpoint * 9) \div 5 + 32,
                     \* the first word of the string, cast to an integer
                     windSpeed |-> r.periods[i].windSpeed[1],
                     windDirection |-> WIND_DIR_REPLACE_DICT[r.periods[i].windDirection],
                     probabilityOfPrecipitation |->
                         r.periods[i].probabilityOfPrecipitation,
                     shortForecast |-> r.periods[i].shortForecast,
                     icon |-> r.periods[i].icon,
                     forecast_updated_time |-> r.updated]]
    IN  LeftJoin(LeftJoin(base, descriptions_lf, "shortForecast", "forecast_descriptions_id"),
                 icons_lf, "icon", "icon_id")

\* the distinct values of column key among the rows whose idname is null
NewTexts(NWS_df, key, idname) ==
    {NWS_df[i][key] : i \in {j \in 1..Len(NWS_df) : IsNone(NWS_df[j][idname])}}

\* the id of the first row added to a lookup table whose ids are ids
FirstNewId(ids) == IF ids = {} THEN 0 ELSE SetMax(ids)

\* order is the order in which unique() happens to list the new texts
add_new_forecast_descriptions(NWS_df, descriptions_lf, order) ==
    IF Len(order) > 0
    THEN LET max_description_id == FirstNewId(Column(descriptions_lf, "id"))
         IN  descriptions_lf \o
                [i \in 1..Len(order) |->
                    [id |-> (i - 1) + max_description_id, shortForecast |-> order[i]]]
    ELSE descriptions_lf

add_new_forecast_icons(NWS_df, icons_lf, order) ==
    IF Len(order) > 0
    THEN LET max_icon_id == FirstNewId(Column(icons_lf, "id"))
         IN  icons_lf \o
                [i \in 1..Len(order) |->
                    [id |-> (i - 1) + max_icon_id, icon |-> order[i]]]
    ELSE icons_lf

\* the predictions file after the batch new_NWS_df is added
add_new_predictions(new_NWS_df, csv) ==
    LET forecast_predictions_lf == make_existing_predictions_lf(csv)
        ids == Column(forecast_predictions_lf, "id")
        max_prediction_id == IF ids = {} THEN 0 ELSE SetMax(ids)
    IN  File(forecast_predictions_lf \o
             [i \in 1..Len(new_NWS_df) |->
                [id |-> new_NWS_df[i].number + max_prediction_id,
                 number |-> new_NWS_df[i].number,
                 startTime |-> new_NWS_df[i].startTime,
                 temperature |-> new_NWS_df[i].temperature,
                 dewpoint |-> new_NWS_df[i].dewpoint,
                 windSpeed |-> new_NWS_df[i].windSpeed,
                 windDirection |-> new_NWS_df[i].windDirection,
                 probabilityOfPrecipitation |-> new_NWS_df[i].probabilityOfPrecipitation,
                 forecast_updated_time |-> new_NWS_df[i].forecast_updated_time,
                 forecast_descriptions_id |-> new_NWS_df[i].forecast_descriptions_id,
                 icon_id |-> new_NWS_df[i].icon_id]])

\* variant: the stored batches are not consulted, only the fallback
max_forecast_updated_time_ignoring_CSV(csv, t) == t - FallbackDays * Day

\* the largest forecast_updated_time of the predictions file, or the fallback
\* of a year before the clock when the file has no row
max_forecast_updated_time_in_CSV(csv, t) ==
    LET m == ColMax(Column(make_existing_predictions_lf(csv), "forecast_updated_time"))
    IN  IF IsNone(m) THEN t - FallbackDays * Day ELSE m[1]

\* one run of the forecast task (the module's main block)
ForecastRun ==
    \E r \in Responses(now) :
        /\ NWS_r' = r
        /\ IF r.raised \/ r.status_code # 200
              \/ r.updated <= max_forecast_updated_time_in_CSV(predictions_csv, now)
           THEN UNCHANGED <<predictions_csv, descriptions_csv, icons_csv>>
           ELSE LET descriptions_lf == make_forecast_descriptions_lf(descriptions_csv)
                    icons_lf == make_forecast_icons_lf(icons_csv)
                    first_df == make_forecast_frames(r, descriptions_lf, icons_lf)
                    new_desc == NewTexts(first_df, "shortForecast", "forecast_descriptions_id")
                    new_icon == NewTexts(first_df, "icon", "icon_id")
                IN  \E dorder \in Orderings(new_desc), iorder \in Orderings(new_icon) :
                      LET d2 == add_new_forecast_descriptions(first_df, descriptions_lf, dorder)
                          i2 == add_new_forecast_icons(first_df, icons_lf, iorder)
                          new_NWS_df == IF new_desc # {} \/ new_icon # {}
                                        THEN make_forecast_frames(r, d2, i2)
                                        ELSE first_df
                      IN  /\ descriptions_csv' =
                                IF new_desc # {} THEN File(d2) ELSE descriptions_csv
                          /\ icons_csv' = IF new_icon # {} THEN File(i2) ELSE icons_csv
                          /\ predictions_csv' = add_new_predictions(new_NWS_df, predictions_csv)
        /\ UNCHANGED <<call, requests, now, radar_gif, dashVars>>

\* an hour passes
Tick ==
    /\ now < StartTime + MaxTicks * Hour
    /\ pending = {}
    /\ now' = now + Hour
    /\ UNCHANGED <<call, requests, predictions_csv, fetchVars, dashVars>>

\* what requests.get can produce for the radar loop: the current GIF with
\* status 200, a non-200 response, whose body is an error page, or a
\* network failure (raised)
RadarResponses ==
    {[raised |-> FALSE, status_code |-> 200,
      content |-> [body |-> "gif", loop |-> "current"]],
     [raised |-> FALSE, status_code |-> 503,
      content |-> [body |-> "error page", loop |-> ""]],
     [raised |-> TRUE, status_code |-> 0, content |-> [body |-> "", loop |-> ""]]}

\* the radar image an earlier run has stored
EarlierRadar == [body |-> "gif", loop |-> "earlier"]

\* tasks/get_nws_radar.py: the content of the response is written over the
\* image whatever its status; when requests.get raises, the file is not
\* opened
RadarRun ==
    /\ \E r \in RadarResponses :
          IF r.raised THEN UNCHANGED radar_gif ELSE radar_gif' = r.content
    /\ UNCHANGED <<call, requests, now, predictions_csv, NWS_r, descriptions_csv, icons_csv,
                   dashVars>>

\* a callback response: the callback, whether an exception escaped it (the
\* request then answers 500 and sets no Output), and the functions that
\* logged an exception during the call
NoCall == [callback |-> "", escaped |-> FALSE, logged |-> {}]

\* the callers of POST /observations whose requests can overlap
Callers == {"station", "replay"}

\* no request has reached add_observation
NoRequests == [c \in Callers |-> [at |-> "idle", row_id |-> None, scanned |-> 0]]

\* no function has been called directly
NoFunction == [function |-> "", args |-> <<>>, result |-> None]

\* the dashboard process is not running
DashboardDown ==
    /\ observations_csv = NoFile
    /\ weather_df_store = None
    /\ temp_graph = None
    /\ windspeed_graph = None
    /\ rain_graph = None
    /\ todays_high_low = None
    /\ pending = {}
    /\ response = NoCall
    /\ call = NoFunction
    /\ relayoutdata = None
    /\ requests = NoRequests

\* the response of a run made two days before the model starts
EarlierResponse ==
    [raised |-> FALSE, status_code |-> 200, updated |-> StartTime - 2 * Day,
     periods |-> PeriodsOf(StartTime - 2 * Day, <<Clear>>)]

EarlierDescriptions == <<[id |-> 0, shortForecast |-> "Clear"]>>
EarlierIcons == <<[id |-> 0, icon |-> "day"]>>

\* the task starts on a fresh installation (no file yet), or on the files
\* that the earlier run left
FetchInit ==
    /\ now = StartTime
    /\ DashboardDown
    /\ NWS_r = NoResponse
    /\ radar_gif = EarlierRadar
    /\ \/ /\ predictions_csv = NoFile
          /\ descriptions_csv = NoFile
          /\ icons_csv = NoFile
       \/ /\ predictions_csv =
                add_new_predictions(
                    make_forecast_frames(EarlierResponse, EarlierDescriptions, EarlierIcons),
                    NoFile)
          /\ descriptions_csv = File(EarlierDescriptions)
          /\ icons_csv = File(EarlierIcons)

FetchNext == ForecastRun \/ RadarRun \/ Tick

FetchSpec == FetchInit /\ [][FetchNext]_vars

----------------------------------------------------------------------------
(* api/main.py: the ingest endpoint *)

\* a timestamp string: the format it is written in and the instant it names;
\* "malformed" is a string that no format parses (a cut or garbled stamp)
TimeString(format, t) == [format |-> format, t |-> t]

ObsFormat == "%Y-%m-%d %H:%M:%S"
StoreFormat == "%Y-%m-%dT%H:%M:%S"

\* variant: a parser that reads an instant out of any string
strptime_any(str, format) == Some(str.t)

\* str.strptime(..., strict=False): null when the string is not in the format
strptime(str, format) == IF str.format = format THEN Some(str.t) ELSE None

\* the station's reports
Warm == [tempf |-> 72, humidity |-> 50, windspeedmph |-> 4, dailyrainin |-> 0,
         winddir |-> 10, windgustmph |-> 6, baromrelin |-> 30, uv |-> 3,
         solarradiation |-> 400]
Cold == [tempf |-> 30, humidity |-> 80, windspeedmph |-> 12, dailyrainin |-> 1,
         winddir |-> 350, windgustmph |-> 20, baromrelin |-> 29, uv |-> 0,
         solarradiation |-> 10]
Readings == {Warm, Cold}

\* the dew point formula at the reports of the model, in whole degrees
get_dew_point_f(t_air_f, rel_humidity) ==
    IF rel_humidity = 100 THEN t_air_f
    ELSE IF t_air_f = 72 /\ rel_humidity = 50 THEN 52
    ELSE IF t_air_f = 30 /\ rel_humidity = 80 THEN 25
    ELSE t_air_f - 20

ObservationRow(row_id, dateutc, reading) ==
    [id |-> row_id,
     dateutc |-> dateutc,
     tempf |-> reading.tempf,
     humidity |-> reading.humidity,
     dewpointf |-> get_dew_point_f(reading.tempf, reading.humidity),
     windspeedmph |-> reading.windspeedmph,
     dailyrainin |-> reading.dailyrainin,
     winddir |-> reading.winddir,
     windgustmph |-> reading.windgustmph,
     baromrelin |-> reading.baromrelin,
     uv |-> reading.uv,
     solarradiation |-> reading.solarradiation]

----------------------------------------------------------------------------
(* dashboard/weather_dash_polars.py: readers and merge *)

\* US/Central standard time
UtcOffset == -6 * Hour

CursorWindow == 4000
RetentionDays == 3

\* dt.convert_time_zone(timezone_string).dt.replace_time_zone(None)
convert_time_zone(t) == t + UtcOffset

\* datetime.datetime.now() of the server, which runs in the station's zone
LocalNow(t) == t + UtcOffset

\* the orders in which sort() can leave the rows: by DATE, rows of equal
\* DATE in any order
SortByDate(rows, descending) ==
    {[i \in 1..Len(rows) |-> rows[q[i]]] :
        q \in {o \in Orderings(1..Len(rows)) :
                 \A i, j \in 1..Len(rows) :
                    i < j => IF descending
                             THEN rows[o[i]].DATE >= rows[o[j]].DATE
                             ELSE rows[o[i]].DATE <= rows[o[j]].DATE}}

\* variant: the row with id = max(id) - 4000 does not pass
CursorTailExclusive(rows) ==
    LET max_id == ColMax(Column(rows, "id"))
    IN  SelectSeq(rows, LAMBDA r : ~IsNone(max_id) /\ r.id > max_id[1] - CursorWindow)

\* the rows that pass the cursor filter id >= max(id) - 4000
CursorTail(rows) ==
    LET max_id == ColMax(Column(rows, "id"))
    IN  SelectSeq(rows, LAMBDA r : ~IsNone(max_id) /\ r.id >= max_id[1] - CursorWindow)

\* the values read_weather_observations can return at clock t: None after a
\* logged exception, else the table
read_weather_observations(csv, t) ==
    IF ~csv.exists THEN {None}
    ELSE LET parsed == [i \in 1..Len(CursorTail(csv.rows)) |->
                          LET r == CursorTail(csv.rows)[i]
                              p == strptime(r.dateutc, ObsFormat)
                          IN  [datect |-> IF IsNone(p) THEN None
                                          ELSE Some(convert_time_zone(p[1])),
                               row |-> r]]
             kept == SelectSeq(parsed,
                        LAMBDA x : ~IsNone(x.datect)
                                   /\ x.datect[1] > t - RetentionDays * Day)
             table == [i \in 1..Len(kept) |->
                          [DATE |-> kept[i].datect[1],
                           TEMP |-> kept[i].row.tempf,
                           DEWPOINT |-> kept[i].row.dewpointf,
                           WIND_SPEED |-> kept[i].row.windspeedmph,
                           WIND_DIRECTION |-> kept[i].row.winddir,
                           RAIN_DAILIY |-> kept[i].row.dailyrainin]]
         IN  {Some(sorted) : sorted \in SortByDate(table, TRUE)}

\* utcnow() - timedelta(minutes=utcnow().minute)
HourCut(t) == t - ((t % Hour) \div Minute) * Minute

\* variant: the periods of every stored batch
read_weather_predictions_all_batches(csv, t) ==
    IF ~csv.exists THEN {None}
    ELSE LET kept == SelectSeq(csv.rows, LAMBDA r : r.startTime > HourCut(t))
             table == [i \in 1..Len(kept) |->
                          [DATE |-> convert_time_zone(kept[i].startTime),
                           TEMP |-> kept[i].temperature,
                           DEWPOINT |-> kept[i].dewpoint,
                           WIND_SPEED |-> kept[i].windSpeed,
                           WIND_DIRECTION |-> kept[i].windDirection,
                           PRECIP_PROB |-> kept[i].probabilityOfPrecipitation,
                           PREDICTION |-> TRUE]]
         IN  {Some(sorted) : sorted \in SortByDate(table, FALSE)}

read_weather_predictions(csv, t) ==
    IF ~csv.exists THEN {None}
    ELSE LET forecast_update_date ==
                 ColMax(Column(csv.rows, "forecast_updated_time"))
             kept == SelectSeq(csv.rows,
                        LAMBDA r : /\ Some(r.forecast_updated_time) = forecast_update_date
                                   /\ r.startTime > HourCut(t))
             table == [i \in 1..Len(kept) |->
                          [DATE |-> convert_time_zone(kept[i].startTime),
                           TEMP |-> kept[i].temperature,
                           DEWPOINT |-> kept[i].dewpoint,
                           WIND_SPEED |-> kept[i].windSpeed,
                           WIND_DIRECTION |-> kept[i].windDirection,
                           PRECIP_PROB |-> kept[i].probabilityOfPrecipitation,
                           PREDICTION |-> TRUE]]
         IN  {Some(sorted) : sorted \in SortByDate(table, FALSE)}

\* the columns a merged row can lack, null after a diagonal concat
NullableColumns == {"RAIN_DAILIY", "PRECIP_PROB", "PREDICTION"}
WeatherColumns ==
    {"DATE", "TEMP", "DEWPOINT", "WIND_SPEED", "WIND_DIRECTION"} \cup NullableColumns

\* a row of pl.concat(..., how="diagonal"): every column of the union, each
\* nullable, null where the row's own table has no such column
DiagonalRow(r) ==
    [c \in WeatherColumns |-> IF c \in DOMAIN r THEN Some(r[c]) ELSE None]

\* variant: a forecast row is dropped when an observation has its DATE
make_weather_df_deduplicated(observation_df, predictions_df) ==
    IF IsNone(observation_df) \/ IsNone(predictions_df) THEN None
    ELSE Some([i \in 1..Len(observation_df[1]) |-> DiagonalRow(observation_df[1][i])]
              \o SelectSeq([i \in 1..Len(predictions_df[1]) |->
                                DiagonalRow(predictions_df[1][i])],
                           LAMBDA p : \A i \in 1..Len(observation_df[1]) :
                                         observation_df[1][i].DATE # p.DATE[1]))

\* make_weather_df on the readers' results: None after a logged exception
\* (pl.concat raises when a reader returned None)
make_weather_df(observation_df, predictions_df) ==
    IF IsNone(observation_df) \/ IsNone(predictions_df) THEN None
    ELSE Some([i \in 1..Len(observation_df[1]) |-> DiagonalRow(observation_df[1][i])]
              \o [i \in 1..Len(predictions_df[1]) |-> DiagonalRow(predictions_df[1][i])])

----------------------------------------------------------------------------
(* dashboard/weather_dash_polars.py: window filter and figures *)

TEMP_PLOT_PADDING == 5
WIND_PLOT_PADDING == 2
RAIN_PLOT_PADDING == 1

\* the non-null values of column c
ColumnValues(rows, c) ==
    {rows[i][c][1] : i \in {j \in 1..Len(rows) : ~IsNone(rows[j][c])}}

ColMin(S) == IF S = {} THEN None ELSE Some(SetMin(S))

\* weather_df.to_dicts() as the store serialises it: a datetime becomes an
\* ISO string
to_dicts(weather_df) ==
    [i \in 1..Len(weather_df) |->
        [c \in WeatherColumns |->
            IF c = "DATE" /\ ~IsNone(weather_df[i][c])
            THEN Some(TimeString(StoreFormat, weather_df[i][c][1]))
            ELSE weather_df[i][c]]]

\* pl.DataFrame(df_dicts, WEATHER_DF_SCHEMA) with DATE parsed back; no data
\* (None) gives an empty table
weather_dicts_to_df(df_dicts) ==
    IF IsNone(df_dicts) THEN Some(<<>>)
    ELSE Some([i \in 1..Len(df_dicts[1]) |->
                 [c \in WeatherColumns |->
                     IF c = "DATE" /\ ~IsNone(df_dicts[1][i][c])
                     THEN strptime(df_dicts[1][i][c][1], StoreFormat)
                     ELSE df_dicts[1][i][c]]])

DayFloor(t) == t - (t % Day)

\* the fraction of a second the clock shows when it is read: none, or some
SubSeconds == {0, 1}

\* variant: the window opens a day earlier
DefaultStart_two_days_back(t, us) == DayFloor(LocalNow(t) - 2 * Day) + 1 + us

\* yesterday at 00:00:01 and tomorrow at 23:59:59 on the server's clock, in
\* whole seconds: replace(hour=0, minute=0, second=1) keeps the microseconds
\* of the clock (us), so with a fraction the first whole second of the
\* window is 00:00:02; the end is 23:59:59.009999, and 23:59:59 is its
\* last whole second
DefaultStart(t, us) == DayFloor(LocalNow(t) - Day) + 1 + us
DefaultEnd(t) == DayFloor(LocalNow(t) + Day) + 23 * Hour + 59 * Minute + 59

\* variant: a DATE column of datetimes is converted to the server's zone too
filter_weather_df_by_date_converting(weather_df, plot_start_date, plot_end_date, t, us) ==
    IF IsNone(weather_df) THEN None
    ELSE LET start == IF IsNone(plot_start_date) THEN DefaultStart(t, us)
                      ELSE plot_start_date[1]
             end == IF IsNone(plot_end_date) THEN DefaultEnd(t) ELSE plot_end_date[1]
             converted == [i \in 1..Len(weather_df[1]) |->
                             [weather_df[1][i] EXCEPT
                                 !.DATE = Some(convert_time_zone(weather_df[1][i].DATE[1]))]]
         IN  Some(SelectSeq(converted,
                    LAMBDA r : r.DATE[1] >= start /\ r.DATE[1] <= end))

\* None after a logged exception (weather_df is None), else the rows in
\* range; for a frame whose DATE column holds datetimes
filter_weather_df_by_date(weather_df, plot_start_date, plot_end_date, t, us) ==
    IF IsNone(weather_df) THEN None
    ELSE LET start == IF IsNone(plot_start_date) THEN DefaultStart(t, us)
                      ELSE plot_start_date[1]
             end == IF IsNone(plot_end_date) THEN DefaultEnd(t) ELSE plot_end_date[1]
         IN  Some(SelectSeq(weather_df[1],
                    LAMBDA r : ~IsNone(r.DATE) /\ r.DATE[1] >= start /\ r.DATE[1] <= end))

\* filter_weather_df_by_date for a frame whose DATE column holds strings: they
\* are parsed as ISO stamps (null where they do not parse), read as UTC and
\* converted to the server's zone; then as above
filter_weather_df_by_date_of_strings(weather_df, plot_start_date, plot_end_date, t, us) ==
    IF IsNone(weather_df) THEN None
    ELSE filter_weather_df_by_date(
            Some([i \in 1..Len(weather_df[1]) |->
                    [c \in WeatherColumns |->
                        IF c = "DATE" /\ ~IsNone(weather_df[1][i][c])
                        THEN LET parsed == strptime(weather_df[1][i][c][1], StoreFormat)
                             IN  IF IsNone(parsed) THEN None
                                 ELSE Some(convert_time_zone(parsed[1]))
                        ELSE weather_df[1][i][c]]]),
            plot_start_date, plot_end_date, t, us)

\* the lengths of the months; the epoch of the clock is the first second of
\* a January and the years of the model have 365 days
MonthDays == <<31, 28, 31, 30, 31, 30, 31, 31, 30, 31, 30, 31>>

RECURSIVE DayInMonth(_, _)
DayInMonth(year_day, month) ==
    IF year_day < MonthDays[month] THEN year_day + 1
    ELSE DayInMonth(year_day - MonthDays[month], month + 1)

\* pl.col("DATE").dt.day(): the day of the month, 1..31
dt_day(t) == DayInMonth((t \div Day) % 365, 1)

HIGH_LOW_ALIAS_COL_DICT ==
    [anno_type \in {"High Temp", "Low Temp", "High Windspeed"} |->
        IF anno_type = "High Windspeed" THEN "WIND_SPEED" ELSE "TEMP"]

\* None after a logged exception (a null DATE has no row to resolve to), else
\* for each category its (time, value) points; the list of a category is
\* given as a set (groupby leaves the order of the groups open), the empty
\* set where the dictionary has no such key
make_high_low_annotations_dict(weather_df) ==
    IF IsNone(weather_df) THEN None
    ELSE IF \E i \in 1..Len(weather_df[1]) : IsNone(weather_df[1][i].DATE) THEN None
    ELSE LET rows == weather_df[1]
             group(day) == SelectSeq(rows, LAMBDA r : dt_day(r.DATE[1]) = day)
             agg(day, anno_type) ==
                 LET values == ColumnValues(group(day), HIGH_LOW_ALIAS_COL_DICT[anno_type])
                 IN  IF anno_type = "Low Temp" THEN ColMin(values) ELSE ColMax(values)
             this_df(day, anno_type) ==
                 SelectSeq(group(day),
                    LAMBDA r : r[HIGH_LOW_ALIAS_COL_DICT[anno_type]] = agg(day, anno_type))
         IN  Some([anno_type \in DOMAIN HIGH_LOW_ALIAS_COL_DICT |->
                     {<<this_df(day, anno_type)[1].DATE[1], agg(day, anno_type)[1]>> :
                        day \in {dt_day(rows[i].DATE[1]) :
                                   i \in {j \in 1..Len(rows) :
                                     ~IsNone(agg(dt_day(rows[j].DATE[1]), anno_type))}}}])

\* astral_location.sunrise(day) and .sunset(day) without the zone: the
\* station's sun in a February, on the server's clock
sunrise(day) == DayFloor(day) + 7 * Hour
sunset(day) == DayFloor(day) + 17 * Hour + 30 * Minute

\* the two rectangles the loop body adds for the day of the instant day: the
\* morning one, then the evening one, each as <<x0, x1>>
day_shading(plot_start_date, plot_end_date, day) ==
    LET AM_midnight == DayFloor(day)
        PM_midnight == DayFloor(day) + 23 * Hour + 59 * Minute + 59
    IN  <<IF plot_start_date <= AM_midnight
          THEN IF plot_end_date >= sunrise(day) THEN <<AM_midnight, sunrise(day)>>
               ELSE <<AM_midnight, plot_end_date>>
          ELSE IF plot_end_date >= sunrise(day) THEN <<plot_start_date, sunrise(day)>>
               ELSE <<plot_start_date, plot_end_date>>,
          IF plot_start_date <= sunset(day)
          THEN IF plot_end_date >= PM_midnight THEN <<sunset(day), PM_midnight>>
               ELSE <<sunset(day), plot_end_date>>
          ELSE IF plot_end_date > PM_midnight THEN <<plot_start_date, PM_midnight>>
               ELSE <<plot_start_date, plot_end_date>>>>

RECURSIVE Flatten(_)
Flatten(seqs) == IF seqs = <<>> THEN <<>> ELSE Head(seqs) \o Flatten(Tail(seqs))

\* None after a logged exception (the date range of an empty plot is null),
\* else the figure with the rectangles of the days added to its shapes, in
\* the order of the calls of add_vrect. The start is first cut to its minute;
\* the loop runs over the whole days of the range and two more.
add_background_shading_to_figure(fig, plot_start_date, plot_end_date) ==
    IF IsNone(plot_start_date) \/ IsNone(plot_end_date) THEN None
    ELSE LET start == plot_start_date[1] - (plot_start_date[1] % Minute)
             days == (plot_end_date[1] - start) \div Day
         IN  Some([fig EXCEPT !.shapes =
                      @ \o Flatten([day_num \in 1..(days + 2) |->
                                      day_shading(start, plot_end_date[1],
                                                  start + (day_num - 1) * Day)])])

TEMP_ANNOTATIONS == {"High Temp", "Low Temp"}

\* the markers of the highs and lows: (category, time, value) for the points
\* of the dictionary that pass the test against the date range of the plot
temp_markers(annotations_dict, plot_start_date, plot_end_date) ==
    UNION {{<<anno_type, temp_tuple[1], temp_tuple[2]>> :
               temp_tuple \in {tt \in annotations_dict[anno_type] :
                                 tt[1] > plot_start_date /\ tt[1] <= plot_end_date}} :
           anno_type \in TEMP_ANNOTATIONS}

\* a figure is given by the ranges of its axes, the rectangles of its
\* shading and what it draws of the series (for the temperature chart the
\* markers of the highs and lows); colours, sizes, lines and labels are left
\* out

\* variant: the y-range is taken over the rows of the window
make_temp_fig_with_range_of_window(weather_df, plot_start_date, plot_end_date, t, us) ==
    LET plot_df ==
            filter_weather_df_by_date(weather_df, plot_start_date, plot_end_date, t, us)
    IN  IF IsNone(plot_df)
        THEN [fig |-> None, logged |-> {"filter_weather_df_by_date", "make_temp_fig"}]
        ELSE LET x0 == ColMin(ColumnValues(plot_df[1], "DATE"))
                 x1 == ColMax(ColumnValues(plot_df[1], "DATE"))
                 lowest == ColMin(ColumnValues(plot_df[1], "DEWPOINT"))
                 highest == ColMax(ColumnValues(plot_df[1], "TEMP"))
             IN  IF IsNone(lowest) \/ IsNone(highest)
                 THEN [fig |-> None, logged |-> {"make_temp_fig"}]
                 ELSE LET temp_fig ==
                              [xrange |-> <<x0, x1>>,
                               yrange |-> <<lowest[1] - TEMP_PLOT_PADDING,
                                            highest[1] + TEMP_PLOT_PADDING>>,
                               shapes |-> <<>>,
                               markers |-> {}]
                          shaded == add_background_shading_to_figure(temp_fig, x0, x1)
                          annotations_dict == make_high_low_annotations_dict(weather_df)
                      IN  IF IsNone(shaded)
                          THEN [fig |-> None,
                                logged |-> {"add_background_shading_to_figure",
                                            "make_temp_fig"}]
                          ELSE IF IsNone(annotations_dict)
                          THEN [fig |-> None,
                                logged |-> {"make_high_low_annotations_dict",
                                            "make_temp_fig"}]
                          ELSE [fig |-> Some([shaded[1] EXCEPT !.markers =
                                                temp_markers(annotations_dict[1],
                                                             x0[1], x1[1])]),
                                logged |-> {}]

\* each make_*_fig gives the figure it returns (None after an exception) and
\* the functions that logged an exception on the way
make_temp_fig(weather_df, plot_start_date, plot_end_date, t, us) ==
    LET plot_df ==
            filter_weather_df_by_date(weather_df, plot_start_date, plot_end_date, t, us)
    IN  IF IsNone(plot_df)
        THEN [fig |-> None, logged |-> {"filter_weather_df_by_date", "make_temp_fig"}]
        ELSE LET x0 == ColMin(ColumnValues(plot_df[1], "DATE"))
                 x1 == ColMax(ColumnValues(plot_df[1], "DATE"))
                 lowest == ColMin(ColumnValues(weather_df[1], "DEWPOINT"))
                 highest == ColMax(ColumnValues(weather_df[1], "TEMP"))
             IN  IF IsNone(lowest) \/ IsNone(highest)
                 THEN [fig |-> None, logged |-> {"make_temp_fig"}]
                 ELSE LET temp_fig ==
                              [xrange |-> <<x0, x1>>,
                               yrange |-> <<lowest[1] - TEMP_PLOT_PADDING,
                                            highest[1] + TEMP_PLOT_PADDING>>,
                               shapes |-> <<>>,
                               markers |-> {}]
                          shaded == add_background_shading_to_figure(temp_fig, x0, x1)
                          annotations_dict == make_high_low_annotations_dict(weather_df)
                      IN  IF IsNone(shaded)
                          THEN [fig |-> None,
                                logged |-> {"add_background_shading_to_figure",
                                            "make_temp_fig"}]
                          ELSE IF IsNone(annotations_dict)
                          THEN [fig |-> None,
                                logged |-> {"make_high_low_annotations_dict",
                                            "make_temp_fig"}]
                          ELSE [fig |-> Some([shaded[1] EXCEPT !.markers =
                                                temp_markers(annotations_dict[1],
                                                             x0[1], x1[1])]),
                                logged |-> {}]

\* the bucket width in minutes for the date range of the plot: the
\* subtraction raises on a null date, and the handler sets 2
gb_min(plot_start_date, plot_end_date) ==
    LET width == IF IsNone(plot_start_date) \/ IsNone(plot_end_date) THEN 2
                 ELSE LET delta == plot_end_date[1] - plot_start_date[1]
                      IN  IF delta > 60 * 15 THEN (delta \div 60) \div 180 ELSE 15
    IN  IF width < 2 THEN 2 ELSE width

\* sines of 0, 5, ..., 90 degrees, in ten-thousandths
SineTable ==
    <<0, 872, 1736, 2588, 3420, 4226, 5000, 5736, 6428, 7071, 7660, 8192, 8660,
      9063, 9397, 9659, 9848, 9962, 10000>>

RECURSIVE Sin(_)
Sin(degrees) ==
    IF degrees <= 90 THEN SineTable[degrees \div 5 + 1]
    ELSE IF degrees <= 180 THEN Sin(180 - degrees)
    ELSE -Sin(degrees - 180)

Cos(degrees) == Sin((degrees + 90) % 360)

RECURSIVE SumSeq(_)
SumSeq(x) == IF x = <<>> THEN 0 ELSE Head(x) + SumSeq(Tail(x))

\* the unit vectors of the directions that are multiples of 5 degrees
Angles == {5 * k : k \in 0..71}
UnitVector == [d \in Angles |-> [sin |-> Sin(d), cos |-> Cos(d)]]

\* variant: the arithmetic mean of the directions
linear_mean(x) == SumSeq(x) \div Len(x)

\* .radians() ... scipy.stats.circmean(x) ... .degrees() on directions that
\* are multiples of 5 degrees: the angle of the sum of the unit vectors, in
\* [0, 360), to the nearest 5 degrees. The angle is found in the first
\* quarter for the sizes of the two components and turned into the quarter
\* that their signs name.
circmean(x) ==
    LET S == SumSeq([i \in 1..Len(x) |-> UnitVector[x[i]].sin])
        C == SumSeq([i \in 1..Len(x) |-> UnitVector[x[i]].cos])
        quarter == {5 * k : k \in 0..18}
        along == [d \in quarter |->
                    (IF C < 0 THEN -C ELSE C) * UnitVector[d].cos
                    + (IF S < 0 THEN -S ELSE S) * UnitVector[d].sin]
        theta == CHOOSE d \in quarter : \A e \in quarter : along[d] >= along[e]
    IN  (IF C >= 0 /\ S >= 0 THEN theta
         ELSE IF C < 0 /\ S >= 0 THEN 180 - theta
         ELSE IF C < 0 THEN 180 + theta
         ELSE 360 - theta) % 360

\* groupby_dynamic(DATE, every=gb_min minutes).agg(...) on the sorted rows,
\* then one arrow per bucket: at the bucket's start, at the largest wind
\* speed, turned to the mean direction, "chartreuse" when the bucket holds a
\* forecast row and "dodgerblue" when it holds none
wind_scatters(plot_df, every) ==
    LET start(r) == r.DATE[1] - (r.DATE[1] % (every * Minute))
        starts == {start(plot_df[i]) : i \in 1..Len(plot_df)}
        bucket(b) == SelectSeq(plot_df, LAMBDA r : start(r) = b)
        directions(b) ==
            LET with == SelectSeq(bucket(b), LAMBDA r : ~IsNone(r.WIND_DIRECTION))
            IN  [i \in 1..Len(with) |-> with[i].WIND_DIRECTION[1]]
    IN  {[x |-> b,
          y |-> ColMax(ColumnValues(bucket(b), "WIND_SPEED")),
          angle |-> IF directions(b) = <<>> THEN None ELSE Some(circmean(directions(b))),
          color |-> IF \E r \in Range(bucket(b)) : r.PREDICTION = Some(TRUE)
                    THEN "chartreuse" ELSE "dodgerblue"] : b \in starts}

\* variant: the largest wind speed of the reports only
max_wind_of_observed(weather_df) ==
    LET fastest == ColMax(ColumnValues(
                      SelectSeq(weather_df, LAMBDA r : IsNone(r.PREDICTION)), "WIND_SPEED"))
    IN  IF IsNone(fastest) THEN None ELSE Some(fastest[1] + WIND_PLOT_PADDING)

\* weather_df["WIND_SPEED"].max() + WIND_PLOT_PADDING; None where the
\* addition raises (no wind speed in the series)
max_wind(weather_df) ==
    LET fastest == ColMax(ColumnValues(weather_df, "WIND_SPEED"))
    IN  IF IsNone(fastest) THEN None ELSE Some(fastest[1] + WIND_PLOT_PADDING)

make_wind_fig(weather_df, plot_start_date, plot_end_date, t, us) ==
    LET plot_df ==
            filter_weather_df_by_date(weather_df, plot_start_date, plot_end_date, t, us)
    IN  IF IsNone(plot_df)
        THEN [fig |-> None, logged |-> {"filter_weather_df_by_date", "make_wind_fig"}]
        ELSE LET x0 == ColMin(ColumnValues(plot_df[1], "DATE"))
                 x1 == ColMax(ColumnValues(plot_df[1], "DATE"))
             IN  IF IsNone(max_wind(weather_df[1]))
                 THEN [fig |-> None, logged |-> {"make_wind_fig"}]
                 ELSE LET wind_fig ==
                              [xrange |-> <<x0, x1>>,
                               yrange |-> <<0, max_wind(weather_df[1])[1]>>,
                               shapes |-> <<>>,
                               data |-> {}]
                          shaded == add_background_shading_to_figure(wind_fig, x0, x1)
                      IN  IF IsNone(shaded)
                          THEN [fig |-> None,
                                logged |-> {"add_background_shading_to_figure",
                                            "make_wind_fig"}]
                          ELSE [fig |-> Some([shaded[1] EXCEPT !.data =
                                                wind_scatters(plot_df[1], gb_min(x0, x1))]),
                                logged |-> {}]

\* variant: the probability is plotted as it is
PRECIP_PROB_unscaled(PRECIP_PROB, max_rain) == [num |-> PRECIP_PROB * 100, den |-> 100]

\* PRECIP_PROB / 100 * max_rain, as a fraction
PRECIP_PROB_SCALED(PRECIP_PROB, max_rain) == [num |-> PRECIP_PROB * max_rain, den |-> 100]

\* the two traces of the rain chart: the daily rain of the reports, and the
\* forecast rows with the scaled probability as y and the probability
\* itself as customdata; the figure is shaded after the traces are added,
\* so it is made in any case
make_rain_fig(weather_df, plot_start_date, plot_end_date, t, us) ==
    LET plot_df ==
            filter_weather_df_by_date(weather_df, plot_start_date, plot_end_date, t, us)
    IN  IF IsNone(plot_df)
        THEN [fig |-> None, logged |-> {"filter_weather_df_by_date", "make_rain_fig"}]
        ELSE LET x0 == ColMin(ColumnValues(plot_df[1], "DATE"))
                 x1 == ColMax(ColumnValues(plot_df[1], "DATE"))
                 wettest == ColMax(ColumnValues(weather_df[1], "RAIN_DAILIY"))
                 max_rain == IF IsNone(wettest) THEN RAIN_PLOT_PADDING
                             ELSE wettest[1] + RAIN_PLOT_PADDING
                 rain_actual_df == SelectSeq(plot_df[1], LAMBDA r : IsNone(r.PREDICTION))
                 rain_prediction_df ==
                     SelectSeq(plot_df[1], LAMBDA r : r.PREDICTION = Some(TRUE))
                 rain_fig ==
                     [xrange |-> <<x0, x1>>, yrange |-> <<0, max_rain>>,
                      shapes |-> <<>>,
                      data |->
                         [actual |->
                             [i \in 1..Len(rain_actual_df) |->
                                 [x |-> rain_actual_df[i].DATE[1],
                                  y |-> rain_actual_df[i].RAIN_DAILIY]],
                          prediction |->
                             [i \in 1..Len(rain_prediction_df) |->
                                 [x |-> rain_prediction_df[i].DATE[1],
                                  y |-> IF IsNone(rain_prediction_df[i].PRECIP_PROB)
                                        THEN None
                                        ELSE Some(PRECIP_PROB_SCALED(
                                                rain_prediction_df[i].PRECIP_PROB[1],
                                                max_rain)),
                                  customdata |-> rain_prediction_df[i].PRECIP_PROB]]]]
             IN  IF IsNone(add_background_shading_to_figure(rain_fig, x0, x1))
                 THEN [fig |-> None, logged |-> {"add_background_shading_to_figure"}]
                 ELSE [fig |-> add_background_shading_to_figure(rain_fig, x0, x1),
                       logged |-> {}]

\* variant: the values of the first row of the log
query_most_recent_data_of_first_row(csv) ==
    IF ~csv.exists \/ csv.rows = <<>> THEN None
    ELSE Some(<<csv.rows[1].tempf, csv.rows[1].windspeedmph, csv.rows[1].winddir,
                csv.rows[1].humidity, csv.rows[1].windgustmph, csv.rows[1].baromrelin,
                csv.rows[1].dailyrainin, csv.rows[1].uv, csv.rows[1].solarradiation>>)

\* None after a logged exception (no file, or no row to take the values of),
\* else temp, windspeed, winddir, humidity, gust, pressure, rain, uv, radiation
query_most_recent_data(csv) ==
    IF ~csv.exists \/ csv.rows = <<>> THEN None
    ELSE LET max_id == SetMax(Column(csv.rows, "id"))
             observation_df == SelectSeq(csv.rows, LAMBDA r : r.id = max_id)
         IN  Some(<<observation_df[1].tempf, observation_df[1].windspeedmph,
                    observation_df[1].winddir, observation_df[1].humidity,
                    observation_df[1].windgustmph, observation_df[1].baromrelin,
                    observation_df[1].dailyrainin, observation_df[1].uv,
                    observation_df[1].solarradiation>>)

\* None after a logged exception, else (high temp, low temp, high windspeed)
\* of the cursor tail's rows since the server's midnight, each nullable.
\* replace(hour=0, minute=0, second=0) keeps the microseconds of the clock
\* (us); the stamps are whole seconds, so with a fraction the first stamp
\* that passes is the second after midnight.
query_high_low(csv, t, us) ==
    IF ~csv.exists THEN None
    ELSE LET midnight_today == DayFloor(LocalNow(t)) + us
             today == SelectSeq(CursorTail(csv.rows),
                        LAMBDA r :
                           LET p == strptime(r.dateutc, ObsFormat)
                           IN  ~IsNone(p) /\ convert_time_zone(p[1]) >= midnight_today)
         IN  Some(<<ColMax(Column(today, "tempf")),
                    ColMin(Column(today, "tempf")),
                    ColMax(Column(today, "windspeedmph"))>>)

----------------------------------------------------------------------------
(* dashboard/weather_dash_polars.py: the polling callbacks *)

MaxObs == 2

\* the merged series make_weather_df() can return at clock t
make_weather_df_results(t) ==
    {make_weather_df(o, p) : o \in read_weather_observations(observations_csv, t),
                             p \in read_weather_predictions(predictions_csv, t)}

\* the functions that log an exception during make_weather_df() at clock t
make_weather_df_logged(t) ==
    (IF None \in read_weather_observations(observations_csv, t)
     THEN {"read_weather_observations"} ELSE {})
    \cup (IF None \in read_weather_predictions(predictions_csv, t)
          THEN {"read_weather_predictions"} ELSE {})
    \cup (IF None \in make_weather_df_results(t) THEN {"make_weather_df"} ELSE {})

\* interval-component fires: weather_df.to_dicts() raises on None, the
\* exception leaves the callback and the store keeps its data
update_weather_df_store ==
    /\ \E weather_df \in make_weather_df_results(now) :
          IF IsNone(weather_df)
          THEN /\ response' = [callback |-> "update_weather_df_store", escaped |-> TRUE,
                               logged |-> make_weather_df_logged(now)]
               /\ UNCHANGED <<call, requests, relayoutdata, weather_df_store, pending>>
          ELSE /\ response' = [callback |-> "update_weather_df_store", escaped |-> FALSE,
                               logged |-> {}]
               /\ weather_df_store' = Some(to_dicts(weather_df[1]))
               /\ pending' = pending \cup {"update_temp_fig", "filter_other_plots"}
    /\ UNCHANGED <<call, requests, relayoutdata, now, predictions_csv, fetchVars, observations_csv,
                   temp_graph, windspeed_graph, rain_graph, todays_high_low>>

\* the store changed: the value the callback returns becomes the figure
update_temp_fig ==
    /\ "update_temp_fig" \in pending
    /\ \E us \in SubSeconds :
       LET made == make_temp_fig(weather_dicts_to_df(weather_df_store), None, None, now, us)
       IN  /\ temp_graph' = made.fig
           /\ response' = [callback |-> "update_temp_fig", escaped |-> FALSE,
                           logged |-> made.logged]
    /\ pending' = pending \ {"update_temp_fig"}
    /\ UNCHANGED <<call, requests, relayoutdata, now, predictions_csv, fetchVars, observations_csv, weather_df_store,
                   windspeed_graph, rain_graph, todays_high_low>>

\* the formats the ends of the range are tried in
RangeFormats ==
    <<"%Y-%m-%d %H:%M:%S.%f", "%Y-%m-%dT%H:%M:%S.%f", StoreFormat, ObsFormat>>

\* one try block: None where datetime.strptime raises on either end, else
\* the two instants
ParsedRange(range, format) ==
    LET x_min == strptime(range["xaxis.range[0]"], format)
        x_max == strptime(range["xaxis.range[1]"], format)
    IN  IF IsNone(x_min) \/ IsNone(x_max) THEN None ELSE Some(<<x_min[1], x_max[1]>>)

\* variant: the first format alone is tried
first_format_only(range, k) == ParsedRange(range, RangeFormats[1])

\* the nested try blocks from the k-th on: the instants under the first
\* format that parses both ends, None when the last block raises
RECURSIVE nested_try_blocks(_, _)
nested_try_blocks(range, k) ==
    IF k > Len(RangeFormats) THEN None
    ELSE IF ~IsNone(ParsedRange(range, RangeFormats[k]))
         THEN ParsedRange(range, RangeFormats[k])
         ELSE nested_try_blocks(range, k + 1)

\* the store changed, or the temperature graph was zoomed or panned; each
\* figure reads the clock for itself
filter_other_plots ==
    /\ "filter_other_plots" \in pending
    /\ LET weather_df == weather_dicts_to_df(weather_df_store)
           has_range == /\ ~IsNone(relayoutdata)
                        /\ "xaxis.range[0]" \in DOMAIN relayoutdata[1]
           parsed == IF has_range THEN nested_try_blocks(relayoutdata[1], 1) ELSE None
           x_min == IF IsNone(parsed) THEN None ELSE Some(parsed[1][1])
           x_max == IF IsNone(parsed) THEN None ELSE Some(parsed[1][2])
       IN  \E wind \in {make_wind_fig(weather_df, x_min, x_max, now, us) :
                           us \in SubSeconds},
              rain \in {make_rain_fig(weather_df, x_min, x_max, now, us) :
                           us \in SubSeconds} :
              /\ windspeed_graph' = wind.fig
              /\ rain_graph' = rain.fig
              /\ response' = [callback |-> "filter_other_plots", escaped |-> FALSE,
                              logged |-> wind.logged \cup rain.logged \cup
                                         IF has_range /\ IsNone(parsed)
                                         THEN {"filter_other_plots"} ELSE {}]
    /\ pending' = pending \ {"filter_other_plots"}
    /\ UNCHANGED <<call, requests, relayoutdata, now, predictions_csv, fetchVars, observations_csv,
                   weather_df_store, temp_graph, todays_high_low>>

\* interval-component-small fires: unpacking None raises
update_gauges_and_displays ==
    /\ LET result == query_most_recent_data(observations_csv)
       IN  response' = [callback |-> "update_gauges_and_displays",
                        escaped |-> IsNone(result),
                        logged |-> IF IsNone(result)
                                   THEN {"query_most_recent_data"} ELSE {}]
    /\ UNCHANGED <<call, requests, relayoutdata, now, predictions_csv, fetchVars, observations_csv, weather_df_store,
                   temp_graph, windspeed_graph, rain_graph, todays_high_low, pending>>

\* interval-component-small fires: unpacking None raises, else the high and
\* the low go to their displays
update_high_low ==
    /\ \E result \in {query_high_low(observations_csv, now, us) : us \in SubSeconds} :
           IF IsNone(result)
           THEN /\ response' = [callback |-> "update_high_low", escaped |-> TRUE,
                                logged |-> {"query_high_low"}]
                /\ UNCHANGED todays_high_low
           ELSE /\ response' = [callback |-> "update_high_low", escaped |-> FALSE,
                                logged |-> {}]
                /\ todays_high_low' = Some(<<result[1][1], result[1][2]>>)
    /\ UNCHANGED <<call, requests, relayoutdata, now, predictions_csv, fetchVars, observations_csv,
                   weather_df_store, temp_graph, windspeed_graph, rain_graph, pending>>

\* variant: the largest id of the log is given again
row_id_without_increment(rows) == SetMax(Column(rows, "id"))

\* api/main.py add_observation, the new row_id: one more than the largest
\* id of the log as it is read at the call
next_row_id(rows) == SetMax(Column(rows, "id")) + 1

\* api/main.py add_observation: the station reports; dateutc is taken as sent.
\* Without a file, or without a row to take the largest id of, the request
\* fails and nothing is written.
add_observation(max_rows) ==
    /\ observations_csv.exists
    /\ observations_csv.rows # <<>>
    /\ Len(observations_csv.rows) < max_rows
    /\ LET row_id == next_row_id(observations_csv.rows)
       IN  \E format \in {ObsFormat, "malformed"}, reading \in Readings :
              observations_csv' =
                 File(Append(observations_csv.rows,
                             ObservationRow(row_id, TimeString(format, now), reading)))
    /\ UNCHANGED <<call, requests, relayoutdata, now, predictions_csv, fetchVars, weather_df_store, temp_graph,
                   windspeed_graph, rain_graph, todays_high_low, pending, response>>

\* the observation log disappears from the disk
LoseObservationLog ==
    /\ observations_csv.exists
    /\ observations_csv' = NoFile
    /\ UNCHANGED <<call, requests, relayoutdata, now, predictions_csv, fetchVars, weather_df_store, temp_graph,
                   windspeed_graph, rain_graph, todays_high_low, pending, response>>

\* api/main.py add_observation, its first step: the scan of the id column of
\* the log and the row_id taken from it. Without a file, or without a row to
\* take the largest id of, the request fails here.
scan_max_id(c) ==
    /\ requests[c].at = "idle"
    /\ requests' =
          [requests EXCEPT ![c] =
              IF observations_csv.exists /\ observations_csv.rows # <<>>
              THEN [at |-> "scanned",
                    row_id |-> Some(next_row_id(observations_csv.rows)),
                    scanned |-> Len(observations_csv.rows)]
              ELSE [at |-> "failed", row_id |-> None, scanned |-> 0]]
    /\ UNCHANGED <<call, now, predictions_csv, fetchVars, dashVars>>

\* variant: the row_id is taken from the log as it is when the row is written
append_row_with_fresh_id(c) ==
    /\ requests[c].at = "scanned"
    /\ \E format \in {ObsFormat, "malformed"}, reading \in Readings :
          observations_csv' =
             File(Append(observations_csv.rows,
                         ObservationRow(next_row_id(observations_csv.rows),
                                        TimeString(format, now), reading)))
    /\ requests' = [requests EXCEPT ![c].at = "done"]
    /\ UNCHANGED <<call, relayoutdata, now, predictions_csv, fetchVars, weather_df_store,
                   temp_graph, windspeed_graph, rain_graph, todays_high_low, pending,
                   response>>

\* api/main.py add_observation, its second step: the file is opened for
\* appending and the row is written with the row_id of the first step
append_row(c) ==
    /\ requests[c].at = "scanned"
    /\ \E format \in {ObsFormat, "malformed"}, reading \in Readings :
          observations_csv' =
             File(Append(observations_csv.rows,
                         ObservationRow(requests[c].row_id[1],
                                        TimeString(format, now), reading)))
    /\ requests' = [requests EXCEPT ![c].at = "done"]
    /\ UNCHANGED <<call, relayoutdata, now, predictions_csv, fetchVars, weather_df_store,
                   temp_graph, windspeed_graph, rain_graph, todays_high_low, pending,
                   response>>

\* the instants (UTC) and reports of the rows an observation log starts with:
\* older than the retention window, inside its last hours, a day and a half
\* old, and stamped by a station whose clock runs ahead
Slots ==
    {[t |-> StartTime - RetentionDays * Day - Hour, reading |-> Cold],
     [t |-> StartTime - RetentionDays * Day + 3 * Hour, reading |-> Warm],
     [t |-> StartTime - 35 * Hour, reading |-> Cold],
     [t |-> HourFloor(StartTime) + Hour, reading |-> Warm]}

\* the logs the dashboard starts with: one well-formed row
InitialLogs ==
    {<<ObservationRow(1, TimeString(ObsFormat, c.t), c.reading)>> : c \in Slots}

FullDescriptions == <<[id |-> 0, shortForecast |-> "Clear"],
                      [id |-> 1, shortForecast |-> "Sunny"],
                      [id |-> 2, shortForecast |-> "Rain"]>>
FullIcons == <<[id |-> 0, icon |-> "day"], [id |-> 1, icon |-> "night"]>>

UpstreamResponse(updated, content) ==
    [raised |-> FALSE, status_code |-> 200, updated |-> updated,
     periods |-> PeriodsOf(updated, content)]

\* the predictions file after a run that stored the response r
Stored(r, csv) ==
    add_new_predictions(make_forecast_frames(r, FullDescriptions, FullIcons), csv)

\* the predictions files the dashboard starts with: none, one without rows,
\* one batch, and a batch superseded by a later, shorter one
InitialPredictions ==
    {NoFile,
     Stored(UpstreamResponse(StartTime - 10 * Minute, <<>>), NoFile),
     Stored(UpstreamResponse(StartTime - 10 * Minute, <<Sunny, Rainy>>), NoFile),
     Stored(UpstreamResponse(StartTime - 10 * Minute, <<Sunny>>),
            Stored(UpstreamResponse(StartTime - 70 * Minute, <<Clear, Sunny, Rainy>>),
                   NoFile))}

\* the dashboard module is loaded: the figures of the layout are made from
\* the files as they are
DashInit ==
    /\ now = StartTime
    /\ NWS_r = NoResponse
    /\ radar_gif = EarlierRadar
    /\ descriptions_csv = File(FullDescriptions)
    /\ icons_csv = File(FullIcons)
    /\ predictions_csv \in InitialPredictions
    /\ observations_csv \in {File(log) : log \in InitialLogs}
    /\ weather_df_store = None
    /\ \E orig_weather_df \in make_weather_df_results(StartTime),
          us_temp \in SubSeconds, us_wind \in SubSeconds, us_rain \in SubSeconds :
          /\ temp_graph =
                make_temp_fig(orig_weather_df, None, None, StartTime, us_temp).fig
          /\ windspeed_graph =
                make_wind_fig(orig_weather_df, None, None, StartTime, us_wind).fig
          /\ rain_graph =
                make_rain_fig(orig_weather_df, None, None, StartTime, us_rain).fig
    /\ todays_high_low = None
    /\ pending = {}
    /\ response = NoCall
    /\ call = NoFunction
    /\ relayoutdata = None
    /\ requests = NoRequests

DashNext ==
    \/ update_weather_df_store
    \/ update_temp_fig
    \/ filter_other_plots
    \/ add_observation(MaxObs)
    \/ LoseObservationLog
    \/ Tick

DashSpec == DashInit /\ [][DashNext]_vars

----------------------------------------------------------------------------
(* The 15-second poll on a long observation log: the cursor cut *)

MaxExtra == 1

ReportSeconds == Minute \div 4

\* the report of row i of a long log: the oldest rows are the hottest, each
\* hotter than the next
LongLogReading(i) ==
    [tempf |-> IF i <= 5 THEN 100 - i ELSE 72, humidity |-> 50,
     windspeedmph |-> 4, dailyrainin |-> 0, winddir |-> 180, windgustmph |-> 6,
     baromrelin |-> 30, uv |-> 3, solarradiation |-> 400]

\* n rows with the ids 1..n, four reports a minute up to StartTime
LongLog(n) ==
    [i \in 1..n |->
        ObservationRow(i, TimeString(ObsFormat, StartTime - (n - i) * ReportSeconds),
                       LongLogReading(i))]

CursorInit ==
    /\ now = StartTime
    /\ NWS_r = NoResponse
    /\ radar_gif = EarlierRadar
    /\ descriptions_csv = NoFile
    /\ icons_csv = NoFile
    /\ predictions_csv = NoFile
    /\ observations_csv \in
          {File(LongLog(n)) : n \in CursorWindow..(CursorWindow + 1)}
    /\ weather_df_store = None
    /\ temp_graph = None
    /\ windspeed_graph = None
    /\ rain_graph = None
    /\ todays_high_low = None
    /\ pending = {}
    /\ response = NoCall
    /\ call = NoFunction
    /\ relayoutdata = None
    /\ requests = NoRequests

CursorNext ==
    \/ add_observation(CursorWindow + 1 + MaxExtra)
    \/ update_high_low
    \/ update_gauges_and_displays
    \/ LoseObservationLog

CursorSpec == CursorInit /\ [][CursorNext]_vars

\* today's high and low over the rows of the log with an id above floor_id
HighLowAbove(floor_id, t) ==
    LET today == SelectSeq(observations_csv.rows,
                    LAMBDA r : /\ r.id > floor_id
                               /\ r.dateutc.format = ObsFormat
                               /\ r.dateutc.t + UtcOffset >= DayFloor(t + UtcOffset))
    IN  <<ColMax(Column(today, "tempf")), ColMin(Column(today, "tempf"))>>

LargestId == SetMax(Column(observations_csv.rows, "id"))

\* a poll of update_high_low that put a high and a low on display
HighLowPass ==
    /\ response'.callback = "update_high_low" /\ ~response'.escaped
    /\ UNCHANGED observations_csv
    /\ update_high_low

\* at most n rows pass the cursor filter: the rows with the n largest ids
LastRowsPass(n) ==
    LET tail == CursorTail(observations_csv.rows)
        ids == Column(tail, "id")
        last == LargestId
    IN  /\ Len(tail) <= n
        /\ ids = {id \in Column(observations_csv.rows, "id") : id > last - n}

\* C9 as stated: on a log with consecutive ids at most 4000 rows pass the
\* cursor filter, the rows with the 4000 largest ids, and query_high_low
\* takes today's high and low from these rows.
C9_Last4000Rows ==
    /\ [](observations_csv.exists => LastRowsPass(CursorWindow))
    /\ [][HighLowPass =>
            todays_high_low' = Some(HighLowAbove(LargestId - CursorWindow, now))]_vars

\* C9 amended: on a log with consecutive ids at most 4001 rows pass the
\* cursor filter, the rows with the 4001 largest ids (id >= max id - 4000),
\* and query_high_low takes today's high and low from these rows.
C9_Last4001Rows ==
    /\ [](observations_csv.exists => LastRowsPass(CursorWindow + 1))
    /\ [][HighLowPass =>
            todays_high_low' = Some(HighLowAbove(LargestId - (CursorWindow + 1), now))]_vars

\* the log is longer than the cut and the high on display is the temperature
\* of the row with id = max id - 4000, cooler than the rows before it
C9_Witness ==
    /\ observations_csv.exists
    /\ Len(observations_csv.rows) > CursorWindow + 1
    /\ response.callback = "update_high_low" /\ ~response.escaped
    /\ LET floor_id == LargestId - CursorWindow
           first == SelectSeq(observations_csv.rows, LAMBDA r : r.id = floor_id)
       IN  /\ first # <<>>
           /\ todays_high_low = Some(<<Some(first[1].tempf), Some(Cold.tempf)>>)

----------------------------------------------------------------------------
(* Properties of the readers, the merge and the callbacks, under DashSpec *)

\* the rows of a stored series that are observed (flag null) or forecast
Observed(df_dicts) == SelectSeq(df_dicts, LAMBDA r : IsNone(r.PREDICTION))
Forecast(df_dicts) == SelectSeq(df_dicts, LAMBDA r : r.PREDICTION = Some(TRUE))

\* row i of the stored series carries the values of reader row r
SameRow(d, r) ==
    /\ d.DATE = Some(TimeString(StoreFormat, r.DATE))
    /\ d.TEMP = Some(r.TEMP)
    /\ d.DEWPOINT = Some(r.DEWPOINT)
    /\ d.WIND_SPEED = Some(r.WIND_SPEED)

\* a pass of the full pipeline that put a series into the store
StoredPass ==
    /\ response'.callback = "update_weather_df_store" /\ ~response'.escaped
    /\ update_weather_df_store

\* C1: for the tables O and F that the two readers return, make_weather_df
\* returns exactly |O| + |F| rows, the rows of O followed by the rows of F,
\* every row of O with a null PREDICTION flag and every row of F with
\* PREDICTION = true; nothing is dropped when timestamps coincide.
C1_MergeKeepsEveryRow ==
    [][StoredPass =>
        \E O \in read_weather_observations(observations_csv, now),
           F \in read_weather_predictions(predictions_csv, now) :
            /\ ~IsNone(O) /\ ~IsNone(F)
            /\ Len(weather_df_store'[1]) = Len(O[1]) + Len(F[1])
            /\ \A i \in 1..Len(O[1]) :
                  /\ SameRow(weather_df_store'[1][i], O[1][i])
                  /\ weather_df_store'[1][i].PREDICTION = None
            /\ \A i \in 1..Len(F[1]) :
                  /\ SameRow(weather_df_store'[1][Len(O[1]) + i], F[1][i])
                  /\ weather_df_store'[1][Len(O[1]) + i].PREDICTION = Some(TRUE)]_vars

\* the store holds an observed and a forecast row of the same timestamp
C1_Witness ==
    /\ ~IsNone(weather_df_store)
    /\ \E i, j \in 1..Len(weather_df_store[1]) :
          /\ weather_df_store[1][i].PREDICTION = None
          /\ weather_df_store[1][j].PREDICTION = Some(TRUE)
          /\ weather_df_store[1][i].DATE = weather_df_store[1][j].DATE

\* C3: when a stage of a render pass fails, the figure displayed after the
\* pass is the figure displayed before it: the failed pass delivers no
\* figure, and the display is never replaced by a null figure.
C3_FailedPassKeepsFigure ==
    [][/\ (update_temp_fig /\ response'.logged # {}) => temp_graph' = temp_graph
       /\ (filter_other_plots /\ response'.logged # {}) =>
              /\ windspeed_graph' = windspeed_graph
              /\ rain_graph' = rain_graph]_vars

\* C4: while the observation log is missing, every polling callback that
\* reads it completes without an exception leaving the callback.
C4_NoExceptionLeavesCallback ==
    [][((update_weather_df_store \/ update_gauges_and_displays \/ update_high_low)
        /\ ~observations_csv.exists)
       => ~response'.escaped]_vars

LatestUpdate == SetMax(Column(predictions_csv.rows, "forecast_updated_time"))
LatestBatch ==
    SelectSeq(predictions_csv.rows, LAMBDA r : r.forecast_updated_time = LatestUpdate)

\* C5: every forecast row that read_weather_predictions returns belongs to
\* the batch with the largest forecast_updated_time of the file; when no
\* period of that batch is still in the future there is no forecast row at
\* all, whatever the older batches hold.
C5_OnlyLatestBatch ==
    [][StoredPass =>
        /\ \A i \in 1..Len(Forecast(weather_df_store'[1])) :
              \E j \in 1..Len(LatestBatch) :
                 /\ Forecast(weather_df_store'[1])[i].DATE =
                       Some(TimeString(StoreFormat,
                                       convert_time_zone(LatestBatch[j].startTime)))
                 /\ Forecast(weather_df_store'[1])[i].TEMP = Some(LatestBatch[j].temperature)
        /\ (predictions_csv.rows # <<>>
            /\ \A j \in 1..Len(LatestBatch) : LatestBatch[j].startTime <= now)
           => Forecast(weather_df_store'[1]) = <<>>]_vars

\* the stored series has no forecast row although an older batch of the file
\* has a period in the future
C5_Witness ==
    /\ ~IsNone(weather_df_store)
    /\ response.callback = "update_weather_df_store"
    /\ Forecast(weather_df_store[1]) = <<>>
    /\ \E r \in Range(predictions_csv.rows) :
          r.forecast_updated_time < LatestUpdate /\ r.startTime > now

\* C6: when the forecast log is missing or has no row, the predictions
\* reader returns an empty table and the merged series consists of exactly
\* the observation rows.
C6_NoForecastLogGivesObservations ==
    [][(update_weather_df_store /\ observations_csv.exists
        /\ (~predictions_csv.exists \/ predictions_csv.rows = <<>>))
       => /\ ~response'.escaped
          /\ \E O \in read_weather_observations(observations_csv, now) :
                /\ Len(weather_df_store'[1]) = Len(O[1])
                /\ \A i \in 1..Len(O[1]) :
                      /\ SameRow(weather_df_store'[1][i], O[1][i])
                      /\ weather_df_store'[1][i].PREDICTION = None]_vars

\* the rows of the cursor tail whose timestamp is not in the fixed format
MalformedRows ==
    SelectSeq(CursorTail(observations_csv.rows), LAMBDA r : r.dateutc.format # ObsFormat)

\* the well-formed rows of the cursor tail that the retention filter keeps
RetainedRows(t) ==
    SelectSeq(CursorTail(observations_csv.rows),
              LAMBDA r : /\ r.dateutc.format = ObsFormat
                         /\ r.dateutc.t + UtcOffset > t - RetentionDays * Day)

C8_ThreeDaysOfObservations ==
    [][StoredPass =>
        Len(Observed(weather_df_store'[1])) =
            Len(SelectSeq(CursorTail(observations_csv.rows),
                          LAMBDA r : /\ r.dateutc.format = ObsFormat
                                     /\ r.dateutc.t > now - RetentionDays * Day))]_vars

----------------------------------------------------------------------------
(* Properties of the forecast task, checked under FetchSpec *)

PredictionRows == make_existing_predictions_lf(predictions_csv)

StoredUpdateTimes == Column(PredictionRows, "forecast_updated_time")

\* the rows that a whole batch of response r adds after the rows old
IsWholeBatch(old, new, r) ==
    /\ Len(new) = Len(old) + Len(r.periods)
    /\ \A i \in 1..Len(old) : new[i] = old[i]
    /\ \A i \in 1..Len(r.periods) :
          /\ new[Len(old) + i].number = r.periods[i].number
          /\ new[Len(old) + i].startTime = r.periods[i].startTime
          /\ new[Len(old) + i].temperature = r.periods[i].temperature
          /\ new[Len(old) + i].forecast_updated_time = r.updated

\* the update times never go down along the file, and the rows of one update
\* time are the periods of one batch, each stored once
UpdateTimesIncrease ==
    \A i, j \in 1..Len(PredictionRows) :
        i < j =>
            /\ PredictionRows[i].forecast_updated_time <= PredictionRows[j].forecast_updated_time
            /\ PredictionRows[i].forecast_updated_time = PredictionRows[j].forecast_updated_time
                  => PredictionRows[i].number < PredictionRows[j].number

\* a step of the forecast task (the clock stands still during a run)
C2_RunStep ==
    LET r == NWS_r'
        old == PredictionRows
        new == make_existing_predictions_lf(predictions_csv')
        answered == ~r.raised /\ r.status_code = 200
        newer == IF StoredUpdateTimes = {}
                 THEN r.updated > now - FallbackDays * Day
                 ELSE r.updated > SetMax(StoredUpdateTimes)
    IN  now' = now =>
          /\ (answered /\ ~newer) => predictions_csv' = predictions_csv
          /\ (answered /\ newer) => IsWholeBatch(old, new, r)
          /\ Len(new) >= Len(old) /\ \A i \in 1..Len(old) : new[i] = old[i]

\* C2: a forecast run whose upstream "updated" time is not strictly newer than
\* the largest forecast_updated_time of the predictions file leaves the file
\* unchanged, a run with a strictly newer time appends the whole batch (on a
\* file without rows the comparison is with one year before the clock), no
\* stored row is ever removed, and the update times of the file increase in
\* append order.
C2_StaleRunsAreNoOps == [][C2_RunStep]_vars /\ []UpdateTimesIncrease

\* two batches are stored and the last run reported a time older than both
C2_Witness ==
    /\ Cardinality(StoredUpdateTimes) >= 2
    /\ ~NWS_r.raised /\ NWS_r.status_code = 200 /\ Len(NWS_r.periods) > 0
    /\ NWS_r.updated < SetMin(StoredUpdateTimes)

\* the rows that a step adds to a lookup table carry the ids 1 + the largest
\* id of the table before the step, onwards (0 onwards in an empty table)
IdsFollowMax(old, new) ==
    LET ids == Column(old, "id")
        first == IF ids = {} THEN 0 ELSE SetMax(ids) + 1
    IN  /\ Len(new) >= Len(old)
        /\ \A i \in 1..Len(new) :
              IF i <= Len(old) THEN new[i] = old[i]
              ELSE new[i].id = first + (i - Len(old) - 1)

\* C10: in each lookup table every newly added text receives id = 1 + the
\* largest id of the table before the addition, or 0 in an empty table, and
\* the k texts that one update adds receive k consecutive ids from there.
C10_NewIdsFollowMax ==
    [][/\ IdsFollowMax(make_forecast_descriptions_lf(descriptions_csv),
                       make_forecast_descriptions_lf(descriptions_csv'))
       /\ IdsFollowMax(make_forecast_icons_lf(icons_csv),
                       make_forecast_icons_lf(icons_csv'))]_vars

----------------------------------------------------------------------------
(* IngestSpec: the station's reports alone, one request at a time *)

IngestInit ==
    /\ now = StartTime
    /\ NWS_r = NoResponse
    /\ radar_gif = EarlierRadar
    /\ descriptions_csv = NoFile
    /\ icons_csv = NoFile
    /\ predictions_csv = NoFile
    /\ observations_csv \in {File(log) : log \in InitialLogs}
    /\ weather_df_store = None
    /\ temp_graph = None
    /\ windspeed_graph = None
    /\ rain_graph = None
    /\ todays_high_low = None
    /\ pending = {}
    /\ response = NoCall
    /\ call = NoFunction
    /\ relayoutdata = None
    /\ requests = NoRequests

\* query_most_recent_data is called
call_query_most_recent_data ==
    /\ call' = [function |-> "query_most_recent_data", args |-> <<>>,
                result |-> query_most_recent_data(observations_csv)]
    /\ UNCHANGED <<now, predictions_csv, fetchVars, dashVars, requests>>

IngestNext ==
    \/ add_observation(MaxObs + 1)
    \/ call_query_most_recent_data
    \/ LoseObservationLog
    \/ Tick

IngestSpec == IngestInit /\ [][IngestNext]_vars

\* two callers report to the ingest endpoint while the log holds one row
RaceInit == IngestInit

RaceNext == \E c \in Callers : scan_max_id(c) \/ append_row(c)

RaceSpec == RaceInit /\ [][RaceNext]_vars

\* the ids of the log, in the order of its rows
IdsInOrder(csv) == [i \in 1..Len(csv.rows) |-> csv.rows[i].id]

\* C11: every request to add_observation, one at a time, appends exactly one
\* row, whose id is one more than the largest id of the log at the call,
\* and leaves the rows of the log as they were; the ids of the log
\* increase strictly in the order of the rows.
C11_OneRowAppended ==
    [][observations_csv'.exists /\ observations_csv' # observations_csv =>
         /\ Len(observations_csv'.rows) = Len(observations_csv.rows) + 1
         /\ SubSeq(observations_csv'.rows, 1, Len(observations_csv.rows))
               = observations_csv.rows
         /\ observations_csv'.rows[Len(observations_csv'.rows)].id
               = SetMax(Column(observations_csv.rows, "id")) + 1
         /\ \A i, j \in 1..Len(observations_csv'.rows) :
               i < j => IdsInOrder(observations_csv')[i]
                          < IdsInOrder(observations_csv')[j]]_vars

\* two reports have been appended to a log
C11_Witness ==
    /\ observations_csv.exists
    /\ Len(observations_csv.rows) = 3
    /\ IdsInOrder(observations_csv) = <<1, 2, 3>>

----------------------------------------------------------------------------
(* PlotSpec: the functions behind the figures, called on a stored series *)

\* the instants (UTC) of the reports of a short log, by the server's clock:
\* two days ago in the evening, yesterday's first second, today's midnight,
\* this morning, this afternoon, and the same day of the next month (a
\* station whose calendar is a month ahead: StartTime is in a February)
PlotSlots ==
    <<DayFloor(LocalNow(StartTime)) - 2 * Day + 23 * Hour - UtcOffset,
      DayFloor(LocalNow(StartTime)) - Day + 1 - UtcOffset,
      DayFloor(LocalNow(StartTime)) - UtcOffset,
      DayFloor(LocalNow(StartTime)) + 8 * Hour - UtcOffset,
      DayFloor(LocalNow(StartTime)) + 14 * Hour - UtcOffset,
      DayFloor(LocalNow(StartTime)) + 28 * Day + 8 * Hour - UtcOffset>>

\* the logs of up to MaxObs reports, appended in the order of their stamps
PlotLogs ==
    UNION {{[i \in 1..n |-> ObservationRow(i, TimeString(ObsFormat, PlotSlots[slot[i]]),
                                           reading[i])] :
              slot \in {f \in [1..n -> 1..Len(PlotSlots)] :
                          \A i \in 1..(n - 1) : f[i] <= f[i + 1]},
              reading \in [1..n -> Readings]} :
           n \in 1..MaxObs}

\* the store holds what a pass of the pipeline has merged from the files
PlotInit ==
    /\ now = StartTime
    /\ NWS_r = NoResponse
    /\ radar_gif = EarlierRadar
    /\ descriptions_csv = File(FullDescriptions)
    /\ icons_csv = File(FullIcons)
    /\ predictions_csv =
          Stored(UpstreamResponse(StartTime - 10 * Minute, <<Sunny, Rainy>>), NoFile)
    /\ observations_csv \in {File(log) : log \in PlotLogs}
    /\ \E weather_df \in make_weather_df_results(StartTime) :
          weather_df_store = Some(to_dicts(weather_df[1]))
    /\ temp_graph = None
    /\ windspeed_graph = None
    /\ rain_graph = None
    /\ todays_high_low = None
    /\ pending = {}
    /\ response = NoCall
    /\ call = NoFunction
    /\ relayoutdata = None
    /\ requests = NoRequests

\* make_high_low_annotations_dict is called on the stored series
call_make_high_low_annotations_dict ==
    /\ call' = [function |-> "make_high_low_annotations_dict", args |-> <<>>,
                result |-> make_high_low_annotations_dict(
                              weather_dicts_to_df(weather_df_store))]
    /\ UNCHANGED <<now, predictions_csv, fetchVars, dashVars, requests>>

\* query_high_low is called
call_query_high_low ==
    /\ \E us \in SubSeconds :
          call' = [function |-> "query_high_low", args |-> <<us>>,
                   result |-> query_high_low(observations_csv, now, us)]
    /\ UNCHANGED <<now, predictions_csv, fetchVars, dashVars, requests>>

\* the ranges a caller asks for: this morning to this afternoon, and from
\* yesterday's first second on
PlotRanges ==
    {<<DayFloor(LocalNow(StartTime)) + 8 * Hour, DayFloor(LocalNow(StartTime)) + 14 * Hour>>,
     <<DayFloor(LocalNow(StartTime)) - Day + 1, DayFloor(LocalNow(StartTime)) + 9 * Hour>>}

\* filter_weather_df_by_date is called on the stored series, parsed
\* ("datetimes") or as the store holds it ("strings"), without a range or
\* with one
call_filter_weather_df_by_date ==
    /\ \E us \in SubSeconds, dtype \in {"datetimes", "strings"},
          range \in {<<None, None>>} \cup {<<Some(r[1]), Some(r[2])>> : r \in PlotRanges} :
          call' = [function |-> "filter_weather_df_by_date",
                   args |-> <<range[1], range[2], us, dtype, 1>>,
                   result |->
                      IF dtype = "strings"
                      THEN filter_weather_df_by_date_of_strings(
                              weather_df_store, range[1], range[2], now, us)
                      ELSE filter_weather_df_by_date(
                              weather_dicts_to_df(weather_df_store),
                              range[1], range[2], now, us)]
    /\ UNCHANGED <<now, predictions_csv, fetchVars, dashVars, requests>>

\* filter_weather_df_by_date is called on the frame it has returned, with
\* the range of that call
call_filter_weather_df_by_date_again ==
    /\ call.function = "filter_weather_df_by_date"
    /\ call.args[5] = 1
    /\ \E us \in SubSeconds :
          call' = [function |-> "filter_weather_df_by_date",
                   args |-> <<call.args[1], call.args[2], us, call.args[4], 2>>,
                   result |-> filter_weather_df_by_date(
                                 call.result, call.args[1], call.args[2], now, us)]
    /\ UNCHANGED <<now, predictions_csv, fetchVars, dashVars, requests>>

\* make_temp_fig is called on the stored series, without a range or with one
call_make_temp_fig ==
    /\ \E us \in SubSeconds,
          range \in {<<None, None>>} \cup {<<Some(r[1]), Some(r[2])>> : r \in PlotRanges} :
          call' = [function |-> "make_temp_fig", args |-> <<range[1], range[2], us>>,
                   result |-> make_temp_fig(weather_dicts_to_df(weather_df_store),
                                            range[1], range[2], now, us).fig]
    /\ UNCHANGED <<now, predictions_csv, fetchVars, dashVars, requests>>

PlotNext ==
    \/ call_make_high_low_annotations_dict
    \/ call_query_high_low
    \/ call_filter_weather_df_by_date
    \/ call_filter_weather_df_by_date_again
    \/ call_make_temp_fig

PlotSpec == PlotInit /\ [][PlotNext]_vars

\* the stored series as the functions get it
StoredSeries == weather_dicts_to_df(weather_df_store)[1]

\* the rows of the stored series on the calendar day of the instant t
RowsOfDay(t) == SelectSeq(StoredSeries, LAMBDA r : DayFloor(r.DATE[1]) = DayFloor(t))

AnnotationsReturned == call.function = "make_high_low_annotations_dict"

\* C12: for each category and each calendar day of the series with a
\* non-null value, make_high_low_annotations_dict gives exactly one point,
\* whose value is that calendar day's highest temperature, lowest
\* temperature or highest wind speed; two calendar dates are never
\* aggregated together, also when they share the day of the month.
C12_OnePointPerCalendarDay ==
    AnnotationsReturned =>
       /\ ~IsNone(call.result)
       /\ \A anno_type \in DOMAIN HIGH_LOW_ALIAS_COL_DICT :
             \A i \in 1..Len(StoredSeries) :
                LET day == RowsOfDay(StoredSeries[i].DATE[1])
                    values == ColumnValues(day, HIGH_LOW_ALIAS_COL_DICT[anno_type])
                    extreme == IF anno_type = "Low Temp" THEN SetMin(values)
                               ELSE SetMax(values)
                    points == {a \in call.result[1][anno_type] :
                                 DayFloor(a[1]) = DayFloor(StoredSeries[i].DATE[1])}
                IN  values # {} =>
                       /\ Cardinality(points) = 1
                       /\ \A a \in points : a[2] = extreme

\* C13: the timestamp of every annotation is the earliest timestamp of its
\* day at which the annotated value occurs, whatever the order of the rows
\* of the series (the observations come latest first).
C13_EarliestOccurrence ==
    AnnotationsReturned /\ ~IsNone(call.result) =>
       \A anno_type \in DOMAIN HIGH_LOW_ALIAS_COL_DICT :
          \A a \in call.result[1][anno_type] :
             LET occurrences ==
                     SelectSeq(RowsOfDay(a[1]),
                        LAMBDA r : r[HIGH_LOW_ALIAS_COL_DICT[anno_type]] = Some(a[2]))
             IN  a[1] = SetMin(ColumnValues(occurrences, "DATE"))

\* the rows of the log with the largest id
NewestRows == SelectSeq(observations_csv.rows, LAMBDA r : r.id = LargestId)

\* C14: query_most_recent_data returns the temperature, wind speed, wind
\* direction, humidity, gust, pressure, daily rain, uv and radiation of the
\* one row with the largest id of the observation log; the forecast files,
\* the store and the observation log are as they were before the call.
C14_ValuesOfNewestRow ==
    [][call' # call /\ call'.function = "query_most_recent_data"
         /\ observations_csv.exists /\ observations_csv.rows # <<>> =>
         /\ Len(NewestRows) = 1
         /\ call'.result =
               Some(<<NewestRows[1].tempf, NewestRows[1].windspeedmph,
                      NewestRows[1].winddir, NewestRows[1].humidity,
                      NewestRows[1].windgustmph, NewestRows[1].baromrelin,
                      NewestRows[1].dailyrainin, NewestRows[1].uv,
                      NewestRows[1].solarradiation>>)
         /\ UNCHANGED <<observations_csv, predictions_csv, descriptions_csv, icons_csv,
                        weather_df_store>>]_vars

\* the values of a third report, whose values differ from the first row's,
\* have been returned
C14_Witness ==
    /\ call.function = "query_most_recent_data"
    /\ observations_csv.exists
    /\ Len(observations_csv.rows) = 3
    /\ ~IsNone(call.result)
    /\ call.result[1][1] = observations_csv.rows[3].tempf
    /\ observations_csv.rows[3].tempf # observations_csv.rows[1].tempf

\* the rows of the log stamped at or after the server's midnight of today
RowsSinceMidnight ==
    SelectSeq(observations_csv.rows,
       LAMBDA r : /\ r.dateutc.format = ObsFormat
                  /\ convert_time_zone(r.dateutc.t) >= DayFloor(LocalNow(now)))

\* C15: query_high_low takes the highest temperature, the lowest temperature
\* and the highest wind speed over exactly the rows of the log stamped at or
\* after today's local midnight: each of them counts, the one stamped at
\* midnight and those below the 4000 newest ids too, and no row before
\* midnight does.
C15_EveryRowSinceMidnight ==
    call.function = "query_high_low" =>
       call.result = Some(<<ColMax(Column(RowsSinceMidnight, "tempf")),
                            ColMin(Column(RowsSinceMidnight, "tempf")),
                            ColMax(Column(RowsSinceMidnight, "windspeedmph"))>>)

\* C16: without a start and an end, filter_weather_df_by_date returns only
\* rows stamped from yesterday 00:00:01 to tomorrow 23:59:59 on the
\* server's clock.
C16_DefaultWindow ==
    call.function = "filter_weather_df_by_date" /\ call.args[1] = None
       /\ call.args[2] = None =>
       /\ ~IsNone(call.result)
       /\ \A i \in 1..Len(call.result[1]) :
             /\ call.result[1][i].DATE[1] >= DayFloor(LocalNow(now)) - Day + 1
             /\ call.result[1][i].DATE[1]
                   <= DayFloor(LocalNow(now)) + Day + 23 * Hour + 59 * Minute + 59

\* a series with a row of two days ago was filtered, and rows were returned
C16_Witness ==
    /\ call.function = "filter_weather_df_by_date"
    /\ call.args[1] = None
    /\ call.args[2] = None
    /\ \E i \in 1..Len(StoredSeries) :
          StoredSeries[i].DATE[1] < DayFloor(LocalNow(now)) - Day
    /\ call.result # Some(<<>>)

\* C17: with a start and an end given, filter_weather_df_by_date applied to
\* the frame it returned gives that frame again, for a DATE column of
\* datetimes and for one of strings, which the first application parses and
\* converts.
C17_FilterTwiceIsFilterOnce ==
    [][/\ call.function = "filter_weather_df_by_date"
       /\ call'.function = "filter_weather_df_by_date"
       /\ call.args[5] = 1
       /\ call'.args[5] = 2
       /\ call.args[1] # None
       /\ call.args[2] # None
       => call'.result = call.result]_vars

\* a series of strings was filtered twice with a range that some of its
\* rows are in and some are not
C17_Witness ==
    /\ call.function = "filter_weather_df_by_date"
    /\ call.args[4] = "strings"
    /\ call.args[5] = 2
    /\ call.args[1] # None
    /\ ~IsNone(call.result)
    /\ Len(call.result[1]) > 0
    /\ Len(call.result[1]) < Len(StoredSeries)

TempFigReturned == call.function = "make_temp_fig" /\ ~IsNone(call.result)

\* C18: the y-range of the temperature figure is from the lowest dew point
\* less 5 to the highest temperature plus 5 of the whole series, whatever
\* the window; two renders of a series with different windows have the same
\* y-range.
C18_RangeOfWholeSeries ==
    /\ [](TempFigReturned =>
            call.result[1].yrange =
               <<SetMin(ColumnValues(StoredSeries, "DEWPOINT")) - 5,
                 SetMax(ColumnValues(StoredSeries, "TEMP")) + 5>>)
    /\ [][TempFigReturned /\ TempFigReturned' =>
            call'.result[1].yrange = call.result[1].yrange]_vars

\* a figure was made for a window that leaves out the coldest row of the
\* series
C18_Witness ==
    /\ TempFigReturned
    /\ call.args[1] # None
    /\ \E i \in 1..Len(StoredSeries) :
          /\ StoredSeries[i].DATE[1] < call.args[1][1]
          /\ StoredSeries[i].DEWPOINT[1] - 5 = call.result[1].yrange[1]
          /\ \A j \in 1..Len(StoredSeries) :
                StoredSeries[j].DATE[1] >= call.args[1][1]
                   => StoredSeries[j].DEWPOINT[1] > StoredSeries[i].DEWPOINT[1]

----------------------------------------------------------------------------
(* ZoomSpec: the temperature graph is zoomed and panned *)

\* what the graph reports after a zoom, a pan or a reset: no range, or the
\* two ends of the x-axis as strings, each in one of the formats tried or in
\* none of them
RelayoutData ==
    {Some([autosize |-> TRUE])}
    \cup {Some(("xaxis.range[0]" :> TimeString(format0, r[1]))
                @@ ("xaxis.range[1]" :> TimeString(format1, r[2]))) :
             format0 \in Range(RangeFormats) \cup {"malformed"},
             format1 \in Range(RangeFormats) \cup {"malformed"},
             r \in PlotRanges}

\* the user zooms, pans or resets the temperature graph
relayout ==
    /\ \E data \in RelayoutData : relayoutdata' = data
    /\ pending' = pending \cup {"filter_other_plots"}
    /\ UNCHANGED <<call, requests, now, predictions_csv, fetchVars, observations_csv,
                   weather_df_store, temp_graph, windspeed_graph, rain_graph,
                   todays_high_low, response>>

\* the log behind the store: reports of yesterday's first second, of this
\* morning and of this afternoon
ZoomLog ==
    <<ObservationRow(1, TimeString(ObsFormat, PlotSlots[2]), Cold),
      ObservationRow(2, TimeString(ObsFormat, PlotSlots[4]), Warm),
      ObservationRow(3, TimeString(ObsFormat, PlotSlots[5]), Cold)>>

\* the dashboard has loaded and a pass of the pipeline has filled the store
ZoomInit ==
    /\ now = StartTime
    /\ NWS_r = NoResponse
    /\ radar_gif = EarlierRadar
    /\ descriptions_csv = File(FullDescriptions)
    /\ icons_csv = File(FullIcons)
    /\ predictions_csv =
          Stored(UpstreamResponse(StartTime - 10 * Minute, <<Sunny, Rainy>>), NoFile)
    /\ observations_csv = File(ZoomLog)
    /\ \E weather_df \in make_weather_df_results(StartTime),
          us_temp \in SubSeconds, us_wind \in SubSeconds, us_rain \in SubSeconds :
          /\ weather_df_store = Some(to_dicts(weather_df[1]))
          /\ temp_graph = make_temp_fig(weather_df, None, None, StartTime, us_temp).fig
          /\ windspeed_graph = make_wind_fig(weather_df, None, None, StartTime, us_wind).fig
          /\ rain_graph = make_rain_fig(weather_df, None, None, StartTime, us_rain).fig
    /\ todays_high_low = None
    /\ pending = {}
    /\ response = NoCall
    /\ call = NoFunction
    /\ relayoutdata = None
    /\ requests = NoRequests

ZoomNext ==
    \/ relayout
    \/ filter_other_plots
    \/ Tick

ZoomSpec == ZoomInit /\ [][ZoomNext]_vars

\* a request to filter_other_plots is answered
Filtered == "filter_other_plots" \in pending /\ "filter_other_plots" \notin pending'

\* both ends of the reported range are in the format
RangeIn(format) ==
    /\ "xaxis.range[0]" \in DOMAIN relayoutdata[1]
    /\ relayoutdata[1]["xaxis.range[0]"].format = format
    /\ relayoutdata[1]["xaxis.range[1]"].format = format

\* the wind and rain figures of the window from x_min to x_max are on display
ShowsWindow(x_min, x_max) ==
    /\ \E us_wind \in SubSeconds :
          windspeed_graph' =
             make_wind_fig(weather_dicts_to_df(weather_df_store),
                           x_min, x_max, now, us_wind).fig
    /\ \E us_rain \in SubSeconds :
          rain_graph' =
             make_rain_fig(weather_dicts_to_df(weather_df_store),
                           x_min, x_max, now, us_rain).fig

\* C19: when the range reported by the temperature graph is not in the
\* first format, filter_other_plots tries the other formats in their order
\* and draws the window of the first that parses; when none parses, the
\* request is answered with the figures of the default window, no
\* exception leaves the callback, and the store and the temperature graph
\* are as they were.
C19_FormatsTriedInOrder ==
    [][Filtered =>
         /\ response'.callback = "filter_other_plots"
         /\ ~response'.escaped
         /\ UNCHANGED <<weather_df_store, temp_graph, relayoutdata>>
         /\ \A k \in 1..Len(RangeFormats) :
               RangeIn(RangeFormats[k]) =>
                  ShowsWindow(Some(relayoutdata[1]["xaxis.range[0]"].t),
                              Some(relayoutdata[1]["xaxis.range[1]"].t))
         /\ (\A k \in 1..Len(RangeFormats) : ~RangeIn(RangeFormats[k])) =>
               ShowsWindow(None, None)]_vars

\* a range in the last of the formats has been drawn, with rows in it
C19_Witness ==
    /\ response.callback = "filter_other_plots"
    /\ pending = {}
    /\ ~IsNone(relayoutdata)
    /\ RangeIn(RangeFormats[Len(RangeFormats)])
    /\ ~IsNone(windspeed_graph)
    /\ windspeed_graph[1].xrange[1] = Some(relayoutdata[1]["xaxis.range[0]"].t)

\* the end of the reported range is in one of the formats tried
EndParses(end) == relayoutdata[1][end].format \in Range(RangeFormats)

\* C30: whenever each end of the reported range is in one of the four
\* formats, filter_other_plots draws the wind and rain figures of exactly
\* that window, also when the two ends are in different formats; the
\* default window is drawn only when an end is in none of the formats or no
\* range is reported.
C30_EachEndParsedByItself ==
    [][Filtered =>
         IF /\ ~IsNone(relayoutdata)
            /\ "xaxis.range[0]" \in DOMAIN relayoutdata[1]
            /\ EndParses("xaxis.range[0]")
            /\ EndParses("xaxis.range[1]")
         THEN ShowsWindow(Some(relayoutdata[1]["xaxis.range[0]"].t),
                          Some(relayoutdata[1]["xaxis.range[1]"].t))
         ELSE ShowsWindow(None, None)]_vars

\* a range in none of the formats has been answered with the default window
NoneParsesAnswered ==
    /\ response.callback = "filter_other_plots"
    /\ pending = {}
    /\ ~IsNone(relayoutdata)
    /\ "xaxis.range[0]" \in DOMAIN relayoutdata[1]
    /\ relayoutdata[1]["xaxis.range[0]"].format = "malformed"
    /\ ~IsNone(windspeed_graph)

\* C20: a fetch that is answered with a status other than 200 or that fails
\* on the network leaves what is stored as it was: the forecast run the
\* predictions, descriptions and icons files, the radar run the radar
\* image.  The image therefore never changes to anything but the GIF of
\* a response with status 200.
C20_FailedFetchLeavesStoredData ==
    /\ [][NWS_r' # NWS_r /\ (NWS_r'.raised \/ NWS_r'.status_code # 200) =>
            UNCHANGED <<predictions_csv, descriptions_csv, icons_csv>>]_vars
    /\ [][radar_gif' # radar_gif => radar_gif'.body = "gif"]_vars

----------------------------------------------------------------------------
(* The charts, called directly on a stored series: ChartSpec *)

\* the instants (UTC) of the reports of a short log, by the server's clock:
\* before the retention window, yesterday's first second, and this morning
\* at 08:00, at 08:05 and at 14:00
ChartSlots ==
    <<StartTime - RetentionDays * Day - Hour,
      DayFloor(LocalNow(StartTime)) - Day + 1 - UtcOffset,
      DayFloor(LocalNow(StartTime)) + 8 * Hour - UtcOffset,
      DayFloor(LocalNow(StartTime)) + 8 * Hour + 5 * Minute - UtcOffset,
      DayFloor(LocalNow(StartTime)) + 14 * Hour - UtcOffset>>

\* the logs of up to MaxObs reports, appended in the order of their stamps
ChartLogs ==
    UNION {{[i \in 1..n |-> ObservationRow(i, TimeString(ObsFormat, ChartSlots[slot[i]]),
                                           reading[i])] :
              slot \in {f \in [1..n -> 1..Len(ChartSlots)] :
                          \A i \in 1..(n - 1) : f[i] <= f[i + 1]},
              reading \in [1..n -> Readings]} :
           n \in 1..MaxObs}

\* the batches the forecast log holds: none with a period, one whose coming
\* hour is windier than every report, and one whose coming hour is calmer
ChartForecasts == {<<>>, <<Sunny, Rainy>>, <<Sunny, Clear>>}

\* the store holds what a pass of the pipeline has merged from the files
ChartInit ==
    /\ now = StartTime
    /\ NWS_r = NoResponse
    /\ radar_gif = EarlierRadar
    /\ descriptions_csv = File(FullDescriptions)
    /\ icons_csv = File(FullIcons)
    /\ predictions_csv \in
          {Stored(UpstreamResponse(StartTime - 10 * Minute, content), NoFile) :
              content \in ChartForecasts}
    /\ observations_csv \in {File(log) : log \in ChartLogs}
    /\ \E weather_df \in make_weather_df_results(StartTime) :
          weather_df_store = Some(to_dicts(weather_df[1]))
    /\ temp_graph = None
    /\ windspeed_graph = None
    /\ rain_graph = None
    /\ todays_high_low = None
    /\ pending = {}
    /\ response = NoCall
    /\ call = NoFunction
    /\ relayoutdata = None
    /\ requests = NoRequests

\* the ranges a caller asks for: five minutes and six hours of this morning
ChartRanges ==
    {<<DayFloor(LocalNow(StartTime)) + 8 * Hour,
       DayFloor(LocalNow(StartTime)) + 8 * Hour + 5 * Minute>>,
     <<DayFloor(LocalNow(StartTime)) + 8 * Hour,
       DayFloor(LocalNow(StartTime)) + 14 * Hour>>}

\* make_wind_fig is called on the stored series, without a range or with one
call_make_wind_fig ==
    /\ \E range \in {<<None, None>>} \cup {<<Some(r[1]), Some(r[2])>> : r \in ChartRanges} :
       \E result \in {make_wind_fig(weather_dicts_to_df(weather_df_store),
                                    range[1], range[2], now, us).fig : us \in SubSeconds} :
          call' = [function |-> "make_wind_fig", args |-> range, result |-> result]
    /\ UNCHANGED <<now, predictions_csv, fetchVars, dashVars, requests>>

\* make_rain_fig is called on the stored series, without a range or with one
call_make_rain_fig ==
    /\ \E range \in {<<None, None>>} \cup {<<Some(r[1]), Some(r[2])>> : r \in ChartRanges} :
       \E result \in {make_rain_fig(weather_dicts_to_df(weather_df_store),
                                    range[1], range[2], now, us).fig : us \in SubSeconds} :
          call' = [function |-> "make_rain_fig", args |-> range, result |-> result]
    /\ UNCHANGED <<now, predictions_csv, fetchVars, dashVars, requests>>

ChartNext ==
    \/ call_make_temp_fig
    \/ call_make_wind_fig
    \/ call_make_rain_fig

ChartSpec == ChartInit /\ [][ChartNext]_vars

WindFigReturned == call.function = "make_wind_fig" /\ ~IsNone(call.result)

\* the rows of the stored series that a figure shows: those in its x-range
RowsShown(fig) ==
    SelectSeq(StoredSeries,
              LAMBDA r : r.DATE[1] >= fig.xrange[1][1] /\ r.DATE[1] <= fig.xrange[2][1])

\* the figure shows two rows, one from 350 and one from 10 degrees, as one
\* arrow: the two are in one bucket
OneBucketOf350And10(fig) ==
    /\ Len(RowsShown(fig)) = 2
    /\ {RowsShown(fig)[i].WIND_DIRECTION : i \in 1..2} = {Some(350), Some(10)}
    /\ Cardinality(fig.data) = 1

\* C21: in the figure of make_wind_fig the arrow of a bucket that holds
\* exactly the directions 350 and 10 degrees points to 0 degrees, their
\* circular mean, not to 180, their arithmetic mean.
C21_CircularMean ==
    (WindFigReturned /\ OneBucketOf350And10(call.result[1]))
    => \A arrow \in call.result[1].data : arrow.angle = Some(0)

\* make_wind_fig has drawn a bucket of a report from 350 and one from 10
\* degrees
C21_Witness ==
    /\ WindFigReturned
    /\ OneBucketOf350And10(call.result[1])
    /\ \E arrow \in call.result[1].data : arrow.angle = Some(0) /\ arrow.y = Some(12)

\* C23: the buckets of the wind chart are max(2, floor(m / 180)) minutes
\* wide, where m is the length in minutes of the window the chart shows:
\* never under 2 minutes, about 180 buckets across the window, and not
\* narrower for a longer window, windows of 15 minutes or less included.
C23_BucketWidth ==
    WindFigReturned =>
       LET fig == call.result[1]
           m == (fig.xrange[2][1] - fig.xrange[1][1]) \div Minute
       IN  fig.data = wind_scatters(RowsShown(fig), IF m \div 180 < 2 THEN 2 ELSE m \div 180)

\* C24: make_temp_fig draws the marker of a high or low only for a point
\* strictly inside the window the chart shows: after its start and before
\* its end; a point on either boundary gets no marker.
C24_MarkersStrictlyInside ==
    TempFigReturned
    => \A marker \in call.result[1].markers :
          /\ marker[2] > call.result[1].xrange[1][1]
          /\ marker[2] < call.result[1].xrange[2][1]

\* the largest wind speed among the rows of the stored series that pass keep
FastestOf(keep(_)) ==
    SetMax(ColumnValues(SelectSeq(StoredSeries, keep), "WIND_SPEED"))

IsObserved(r) == IsNone(r.PREDICTION)
IsAnyRow(r) == TRUE

\* C25 as stated: the y-range of the wind chart is from 0 to M + 2, M the
\* largest wind speed of the observed rows (PREDICTION null) alone; a
\* forecast row windier than every observed one does not change it.
C25_RangeOfObservedRows ==
    (WindFigReturned /\ \E i \in 1..Len(StoredSeries) : IsObserved(StoredSeries[i]))
    => call.result[1].yrange = <<0, FastestOf(IsObserved) + 2>>

\* C25, amended: the y-range of the wind chart is from 0 to M + 2, M the
\* largest wind speed of the whole merged series, forecast rows included; a
\* forecast row windier than every observed one raises the range.
C25_RangeOfAllRows ==
    WindFigReturned => call.result[1].yrange = <<0, FastestOf(IsAnyRow) + 2>>

\* a wind figure was made of a series whose forecast row is windier than
\* every report
C25_Witness ==
    /\ WindFigReturned
    /\ \E i \in 1..Len(StoredSeries) : IsObserved(StoredSeries[i])
    /\ FastestOf(IsAnyRow) > FastestOf(IsObserved)
    /\ call.result[1].yrange[2] = FastestOf(IsAnyRow) + 2

RainFigReturned == call.function = "make_rain_fig" /\ ~IsNone(call.result)

\* the top of the rain chart for the stored series: the largest daily rain
\* plus 1, or 1 when no row has a daily rain
TopOfRain ==
    IF ColumnValues(StoredSeries, "RAIN_DAILIY") = {} THEN 1
    ELSE SetMax(ColumnValues(StoredSeries, "RAIN_DAILIY")) + 1

\* the point of the forecast trace of fig that shows the forecast row r
ForecastPoints(fig, r) ==
    {i \in 1..Len(fig.data.prediction) : fig.data.prediction[i].x = r.DATE[1]}

\* C26: the y-range of the rain chart is [0, R], R the largest daily rain of
\* the full series plus 1, or 1 without any; every forecast row shown, with
\* a probability p in 0..100, is plotted at p / 100 * R, which is within
\* [0, R], and carries p itself as hover data.
C26_ProbabilityScaled ==
    RainFigReturned =>
       /\ call.result[1].yrange = <<0, TopOfRain>>
       /\ \A r \in Range(RowsShown(call.result[1])) :
             (r.PREDICTION = Some(TRUE) /\ ~IsNone(r.PRECIP_PROB)
              /\ r.PRECIP_PROB[1] \in 0..100)
             => /\ ForecastPoints(call.result[1], r) # {}
                /\ \A i \in ForecastPoints(call.result[1], r) :
                      LET point == call.result[1].data.prediction[i]
                      IN  /\ ~IsNone(point.y)
                          /\ point.y[1].num * 100 =
                                r.PRECIP_PROB[1] * TopOfRain * point.y[1].den
                          /\ point.y[1].num >= 0
                          /\ point.y[1].num <= TopOfRain * point.y[1].den
                          /\ point.customdata = r.PRECIP_PROB

\* a rain figure shows a forecast hour with 80 percent on a chart that
\* reaches up to 2
C26_Witness ==
    /\ RainFigReturned
    /\ call.result[1].yrange = <<0, 2>>
    /\ \E i \in 1..Len(call.result[1].data.prediction) :
          /\ call.result[1].data.prediction[i].customdata = Some(80)
          /\ call.result[1].data.prediction[i].y = Some([num |-> 160, den |-> 100])

\* the call returned a figure: each chart is shaded by the same helper
FigReturned ==
    /\ call.function \in {"make_temp_fig", "make_wind_fig", "make_rain_fig"}
    /\ ~IsNone(call.result)

\* the rectangle from x0 to x1 is night of the day of the instant day
NightOf(x0, x1, day) ==
    \/ DayFloor(day) <= x0 /\ x1 <= sunrise(day)
    \/ sunset(day) <= x0 /\ x1 <= DayFloor(day) + Day

\* C27: every rectangle that add_background_shading_to_figure adds for a
\* window [start, end] has x0 <= x1, lies within [start, end] and covers
\* only night, from midnight to sunrise or from sunset to the next midnight
\* of a calendar day that the window meets.
C27_ShadingWithinWindow ==
    FigReturned =>
       \A i \in 1..Len(call.result[1].shapes) :
          LET x0 == call.result[1].shapes[i][1]
              x1 == call.result[1].shapes[i][2]
              start == call.result[1].xrange[1][1]
              end == call.result[1].xrange[2][1]
          IN  /\ x0 <= x1
              /\ start <= x0 /\ x1 <= end
              /\ \E day \in {DayFloor(start) + k * Day :
                               k \in 0..((DayFloor(end) - DayFloor(start)) \div Day)} :
                    NightOf(x0, x1, day)

----------------------------------------------------------------------------
(* Properties of the lookup tables, under FetchSpec *)

\* no two rows of the table share an id, and no two share the text of key
IsLookupTable(rows, key) ==
    \A i, j \in 1..Len(rows) :
       i # j => rows[i].id # rows[j].id /\ rows[i][key] # rows[j][key]

\* C28: after any sequence of forecast updates no two rows of the
\* descriptions table or of the icons table share an id or a text, so an id
\* stored in a prediction row names exactly one text.
C28_LookupIdsAndTextsUnique ==
    /\ IsLookupTable(make_forecast_descriptions_lf(descriptions_csv), "shortForecast")
    /\ IsLookupTable(make_forecast_icons_lf(icons_csv), "icon")

----------------------------------------------------------------------------
(* Properties of the forecast cut, under DashSpec *)

\* the forecast row of the stored series df_dicts that shows the period p
ShowsPeriod(df_dicts, p) ==
    \E i \in 1..Len(Forecast(df_dicts)) :
       /\ Forecast(df_dicts)[i].DATE =
             Some(TimeString(StoreFormat, convert_time_zone(p.startTime)))
       /\ Forecast(df_dicts)[i].TEMP = Some(p.temperature)

\* C22: read_weather_predictions keeps a period of the latest batch if and
\* only if it starts at or after the top of the current hour: the period that
\* starts at HH:00:00 of the current hour is returned at every instant of
\* that hour, a period of an earlier hour never.
C22_KeptFromTopOfHour ==
    [][StoredPass =>
        \A j \in 1..Len(LatestBatch) :
           ShowsPeriod(weather_df_store'[1], LatestBatch[j])
           <=> LatestBatch[j].startTime >= HourFloor(now)]_vars

-----------------------------------------------------------------------------
(* Properties of two overlapping ingest requests, under RaceSpec *)

BothAppended == \A c \in Callers : requests[c].at = "done"

\* the two callers scanned the same log: neither row was there at either scan
ScannedTheSameLog == requests["station"].scanned = requests["replay"].scanned

\* C29: under every interleaving of two add_observation calls whose read of
\* the maximum id and whose append are separate steps, no two rows of the
\* observation log have the same id
C29_NoTwoRowsShareAnId ==
    \A i, j \in 1..Len(observations_csv.rows) :
       i # j => observations_csv.rows[i].id # observations_csv.rows[j].id

\* C29, amended: the two rows have different ids, the second one more than
\* the first, exactly when one call scanned the log after the other had
\* appended; when both calls scan before either appends, the two rows carry
\* the same id
C29_DistinctIdsOnlyWhenSerialized ==
    BothAppended =>
       LET rows == observations_csv.rows
           n == Len(rows)
       IN  /\ rows[n - 1].id = next_row_id(SubSeq(rows, 1, n - 2))
           /\ rows[n].id = IF ScannedTheSameLog THEN rows[n - 1].id
                           ELSE rows[n - 1].id + 1

\* both calls have scanned before either appended, and both rows are written
C29_Witness ==
    /\ BothAppended
    /\ ScannedTheSameLog
    /\ Len(observations_csv.rows) = 3

====
